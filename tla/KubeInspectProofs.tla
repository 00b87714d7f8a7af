-------------------------- MODULE KubeInspectProofs --------------------------
(***************************************************************************)
(* Proofs about one run of kube-inspect, for every set of flags: without   *)
(* --node each section asked for is accounted for whatever the others met, *)
(* or the process list alone with --json and --pod, and with any flags a   *)
(* pod that one section saw gone is not shown alive by another that looks  *)
(* the same way.                                                           *)
(***************************************************************************)
EXTENDS KubeInspect, SequenceTheorems, TLAPS

SectionNames == PodFlags \cup NodeFlags \cup {"processes", "events"}

\* The three ways to look the pod up.
Finds(way) ==
    \/ way = "walk" /\ WalkMatch
    \/ way = "glob" /\ GlobMatch
    \/ way = "list" /\ ProcMatch

\* What a section found before it reads files is still so, but for the deletion.
FoundBefore ==
    pc = "read" =>
        /\ at \in DOMAIN Sections /\ Asked(Here)
        /\ Here \in {"cgroup", "psi", "events", "perf"}
        /\ alive => Finds(LooksLike[Here])

\* Every section that saw the pod gone would still not find it.
GoneForGood ==
    \A i \in DOMAIN report :
        report[i].section \in DOMAIN LooksLike /\ SeenGone(report[i]) =>
            ~Finds(LooksLike[report[i].section])

\* The report tells of the sections before the present one.
Accounted ==
    /\ \A k \in 1..at - 1 : k \in DOMAIN Sections /\ Asked(Sections[k]) =>
        \E i \in DOMAIN report : report[i].section = Sections[k]
    /\ \A i \in DOMAIN report : \E k \in 1..at - 1 :
        k \in DOMAIN Sections /\ Asked(Sections[k]) /\ report[i].section = Sections[k]
    /\ InMainsOrder

KubeInv ==
    /\ TypeOK
    /\ FoundBefore
    /\ GoneForGood
    /\ NeverReappears
    /\ pc # "exit" => Accounted
    /\ SectionsAreIndependent
    /\ pc # "exit" => code = 0
    /\ at = 0 => report = <<>>
    /\ pc # "exit" /\ at > 1 => ~JsonDump

-----------------------------------------------------------------------------
\* main()'s sections; the process list is the first and comes only once.
LEMMA SectionsFacts ==
  /\ Sections \in Seq(SectionNames) /\ Len(Sections) = 14 /\ DOMAIN Sections = 1..14
  /\ Sections[1] = "processes"
  /\ \A k \in 2..14 : Sections[k] # "processes"
<1>1. /\ PodSections \in Seq(SectionNames) /\ Len(PodSections) = 11
      /\ PodSections[1] = "processes" /\ \A k \in 2..11 : PodSections[k] # "processes"
  BY DEF PodSections, SectionNames, PodFlags, NodeFlags
<1>2. /\ NodeSections \in Seq(SectionNames) /\ Len(NodeSections) = 3
      /\ \A k \in 1..3 : NodeSections[k] # "processes"
  BY DEF NodeSections, SectionNames, PodFlags, NodeFlags
<1>3. /\ Sections \in Seq(SectionNames) /\ Len(Sections) = 14
      /\ \A k \in 1..14 : Sections[k] = IF k <= 11 THEN PodSections[k] ELSE NodeSections[k - 11]
  <2>1. /\ Sections \in Seq(SectionNames) /\ Len(Sections) = Len(PodSections) + Len(NodeSections)
        /\ \A k \in 1..Len(PodSections) + Len(NodeSections) :
              Sections[k] = IF k <= Len(PodSections) THEN PodSections[k]
                            ELSE NodeSections[k - Len(PodSections)]
    BY <1>1, <1>2, ConcatProperties DEF Sections
  <2> QED
    BY <1>1, <1>2, <2>1
<1>4. ASSUME NEW k \in 2..14
      PROVE  Sections[k] # "processes"
  <2>1. CASE k <= 11
    BY <1>1, <1>3, <2>1
  <2>2. CASE k > 11
    <3>1. k - 11 \in 1..3
      BY <2>2
    <3> QED
      BY <1>2, <1>3, <2>2, <3>1
  <2> QED
    BY <2>1, <2>2
<1>5. QED
  BY <1>1, <1>3, <1>4

\* Which way each of the six sections looks.
LEMMA Ways ==
  /\ DOMAIN LooksLike = {"cgroup", "psi", "events", "perf", "processes", "namespaces"}
  /\ LooksLike["cgroup"] = "walk" /\ LooksLike["psi"] = "walk"
  /\ LooksLike["events"] = "glob" /\ LooksLike["perf"] = "glob"
  /\ LooksLike["processes"] = "list" /\ LooksLike["namespaces"] = "list"
  BY DEF LooksLike

\* What is not found now is never found again, and nothing but the deletion changes it.
LEMMA FindsLess ==
  ASSUME UNCHANGED input, alive' => alive
  PROVE  /\ (WalkMatch' => WalkMatch) /\ (GlobMatch' => GlobMatch) /\ (ProcMatch' => ProcMatch)
         /\ alive' => /\ WalkMatch => WalkMatch'
                      /\ GlobMatch => GlobMatch'
                      /\ ProcMatch => ProcMatch'
  BY DEF input, WalkMatch, GlobMatch, ProcMatch, DirSpelling, PodRoot

\* The flags do not change while the report is printed.
LEMMA AskedKept ==
  ASSUME UNCHANGED input, NEW s
  PROVE  Asked(s)' <=> Asked(s)
  BY DEF input, Asked

LEMMA JsonDumpKept ==
  ASSUME UNCHANGED input
  PROVE  JsonDump' <=> JsonDump
  BY DEF input, JsonDump

\* Nothing is printed at the start.
LEMMA KubeInit == Init => KubeInv
<1> SUFFICES ASSUME Init PROVE KubeInv
  OBVIOUS
<1>1. report = <<>>
  BY DEF Init
<1>2. report \in Seq(Rows) /\ DOMAIN report = {}
  BY <1>1
<1>3. at = 0 /\ at \in 0..Len(Sections) + 1
  <2>1. at = 0
    BY DEF Init
  <2>2. 0 \in 0..Len(Sections) + 1
    BY SectionsFacts
  <2> QED
    BY <2>1, <2>2
<1>4. /\ driver \in Drivers /\ uid \in {"dashes", "plain"}
      /\ query \in Spellings \cup {""} /\ flags \in FlagSets
      /\ alive \in BOOLEAN /\ pc = "run" /\ code = 0
  BY DEF Init
<1>5. TypeOK
  BY <1>2, <1>3, <1>4 DEF TypeOK
<1>6. Accounted
  <2>1. InMainsOrder
    BY <1>2 DEF InMainsOrder
  <2>2. 1..at - 1 = {}
    BY <1>3
  <2> QED
    BY <1>2, <2>1, <2>2 DEF Accounted
<1>7. ~(at > 1)
  BY <1>3
<1>8. SectionsAreIndependent /\ FoundBefore /\ GoneForGood /\ NeverReappears
  BY <1>2, <1>4 DEF FoundBefore, GoneForGood, NeverReappears, SectionsAreIndependent
<1> QED
  BY <1>1, <1>4, <1>5, <1>6, <1>7, <1>8 DEF KubeInv

-----------------------------------------------------------------------------
(***************************************************************************)
(* A section is through: its line is true to what the lookups find now.    *)
(***************************************************************************)
TrueLine(s, outcome) ==
    s \in DOMAIN LooksLike =>
        /\ outcome = "data" => Finds(LooksLike[s])
        /\ SeenGone([section |-> s, outcome |-> outcome]) => ~Finds(LooksLike[s])

\* A section prints one line, true of the pod as the section found it.
LEMMA RowAdded ==
  ASSUME KubeInv, UNCHANGED <<input, alive>>, pc # "exit", at \in DOMAIN Sections,
         Asked(Here), NEW outcome \in Outcomes, Section(outcome), TrueLine(Here, outcome),
         Here = "processes" => ~JsonDump
  PROVE  KubeInv'
<1> DEFINE n == Len(report)
           r == [section |-> Here, outcome |-> outcome]
<1>1. /\ report \in Seq(Rows) /\ n \in Nat /\ at \in 1..14 /\ DOMAIN report = 1..n
      /\ code = 0
  <2>1. report \in Seq(Rows) /\ code = 0
    BY DEF KubeInv, TypeOK
  <2>2. at \in 1..14
    BY SectionsFacts
  <2> QED
    BY <2>1, <2>2
<1>2. r \in Rows /\ r.section = Here /\ r.outcome = outcome
  BY DEF Rows, Here, ToSet
<1> HIDE DEF r
<1>3. /\ report' \in Seq(Rows) /\ DOMAIN report' = 1..n + 1 /\ report'[n + 1] = r
      /\ \A i \in 1..n : report'[i] = report[i]
  BY <1>1, <1>2 DEF Section, r
<1>4. at' = at + 1 /\ pc' = "run" /\ code' = 0
  BY <1>1 DEF Section
<1>5. TypeOK'
  <2>1. /\ driver' \in Drivers /\ uid' \in {"dashes", "plain"}
        /\ query' \in Spellings \cup {""} /\ flags' \in FlagSets /\ alive' \in BOOLEAN
    BY DEF KubeInv, TypeOK, input
  <2>2. at' \in 0..Len(Sections) + 1 /\ pc' \in {"run", "read", "exit"} /\ code' \in {0, 1}
    BY <1>1, <1>4, SectionsFacts
  <2> QED
    BY <1>3, <2>1, <2>2 DEF TypeOK
<1>6. GoneForGood'
  <2> SUFFICES ASSUME NEW i \in 1..n + 1, report'[i].section \in DOMAIN LooksLike,
                      SeenGone(report'[i])
               PROVE  (~Finds(LooksLike[report[i].section]))'
    BY <1>3 DEF GoneForGood
  <2>1. ~Finds(LooksLike[report'[i].section])
    <3>1. CASE i = n + 1
      BY <1>2, <1>3, <3>1 DEF TrueLine, r
    <3>2. CASE i # n + 1
      BY <1>1, <1>3, <3>2 DEF KubeInv, GoneForGood
    <3> QED
      BY <3>1, <3>2
  <2> QED
    BY <2>1, FindsLess DEF Finds
<1>7. NeverReappears'
  <2> SUFFICES ASSUME NEW i \in 1..n + 1, NEW j \in 1..n + 1, i < j,
                      {report'[i].section, report'[j].section} \subseteq DOMAIN LooksLike,
                      LooksLike[report'[i].section] = LooksLike[report'[j].section],
                      SeenGone(report'[i])
               PROVE  report'[j].outcome # "data"
    BY <1>3 DEF NeverReappears
  <2>1. CASE j = n + 1
    <3>1. i \in 1..n /\ report'[i] = report[i] /\ report'[j] = r
      BY <1>1, <1>3, <2>1
    <3>2. ~Finds(LooksLike[report[i].section])
      BY <1>1, <3>1 DEF KubeInv, GoneForGood
    <3> QED
      BY <1>2, <3>1, <3>2 DEF TrueLine
  <2>2. CASE j # n + 1
    <3>1. i \in 1..n /\ j \in 1..n /\ report'[i] = report[i] /\ report'[j] = report[j]
      BY <1>1, <1>3, <2>2
    <3> QED
      BY <1>1, <3>1 DEF KubeInv, NeverReappears
  <2> QED
    BY <2>1, <2>2
<1>8. Accounted'
  <2>1. Accounted
    BY DEF KubeInv
  <2>2. ASSUME NEW k \in 1..at, Asked(Sections[k])
        PROVE  \E i \in 1..n + 1 : report'[i].section = Sections[k]
    <3>1. CASE k = at
      <4>1. report'[n + 1].section = Sections[k] /\ n + 1 \in 1..n + 1
        BY <1>1, <1>2, <1>3, <3>1 DEF Here
      <4> QED
        BY <4>1
    <3>2. CASE k # at
      <4>1. k \in 1..at - 1 /\ k \in DOMAIN Sections
        BY <1>1, <3>2, SectionsFacts
      <4>2. PICK i \in 1..n : report[i].section = Sections[k]
        BY <1>1, <2>1, <2>2, <4>1 DEF Accounted
      <4> QED
        BY <1>1, <1>3, <4>2
    <3> QED
      BY <3>1, <3>2
  <2>3. ASSUME NEW i \in 1..n + 1
        PROVE  \E k \in 1..at : /\ k \in DOMAIN Sections /\ Asked(Sections[k])
                                /\ report'[i].section = Sections[k]
    <3>1. CASE i = n + 1
      <4>1. at \in 1..at /\ report'[i].section = Sections[at] /\ Asked(Sections[at])
        BY <1>1, <1>2, <1>3, <3>1 DEF Here
      <4> QED
        BY <4>1
    <3>2. CASE i # n + 1
      <4>1. i \in 1..n /\ report'[i] = report[i]
        BY <1>1, <1>3, <3>2
      <4>2. PICK k \in 1..at - 1 : /\ k \in DOMAIN Sections /\ Asked(Sections[k])
                                   /\ report[i].section = Sections[k]
        BY <1>1, <2>1, <4>1 DEF Accounted
      <4> QED
        BY <1>1, <4>1, <4>2
    <3> QED
      BY <3>1, <3>2
  <2>4. ASSUME NEW i \in 1..n + 1, NEW j \in 1..n + 1, i < j
        PROVE  \E k, l \in DOMAIN Sections :
                  /\ k < l
                  /\ report'[i].section = Sections[k] /\ report'[j].section = Sections[l]
    <3>1. i \in 1..n /\ report'[i] = report[i]
      BY <1>1, <1>3, <2>4
    <3>2. CASE j = n + 1
      <4>1. PICK k \in 1..at - 1 : k \in DOMAIN Sections /\ report[i].section = Sections[k]
        BY <1>1, <2>1, <3>1 DEF Accounted
      <4>2. k < at /\ report'[j].section = Sections[at]
        BY <1>1, <1>2, <1>3, <3>2, <4>1 DEF Here
      <4> QED
        BY <3>1, <4>1, <4>2
    <3>3. CASE j # n + 1
      <4>1. j \in 1..n /\ report'[j] = report[j]
        BY <1>1, <1>3, <3>3
      <4>2. \E k, l \in DOMAIN Sections :
              k < l /\ report[i].section = Sections[k] /\ report[j].section = Sections[l]
        <5>1. i \in DOMAIN report /\ j \in DOMAIN report /\ InMainsOrder
          BY <1>1, <2>1, <3>1, <4>1 DEF Accounted
        <5> QED
          BY <2>4, <5>1 DEF InMainsOrder
      <4> QED
        BY <3>1, <4>1, <4>2
    <3> QED
      BY <3>2, <3>3
  <2>5. at' - 1 = at
    BY <1>1, <1>4
  <2>6. \A s : Asked(s)' <=> Asked(s)
    BY AskedKept
  <2>7. InMainsOrder'
    BY <1>3, <2>4 DEF InMainsOrder
  <2> QED
    BY <1>3, <2>2, <2>3, <2>5, <2>6, <2>7 DEF Accounted
<1>9. at' # 0
  BY <1>1, <1>4
<1>10. ~JsonDump'
  <2>1. CASE at = 1
    BY <2>1, SectionsFacts, JsonDumpKept DEF Here
  <2>2. CASE at # 1
    BY <1>1, <2>2, JsonDumpKept DEF KubeInv
  <2> QED
    BY <2>1, <2>2
<1> QED
  BY <1>4, <1>5, <1>6, <1>7, <1>8, <1>9, <1>10
  DEF KubeInv, FoundBefore, SectionsAreIndependent

\* The order of the lines, and what they say of the pod, when no line is added.
LEMMA ReportKept ==
  ASSUME KubeInv, UNCHANGED <<input, report>>, alive' => alive
  PROVE  /\ GoneForGood' /\ NeverReappears'
         /\ (UNCHANGED at /\ Accounted => Accounted')
<1>1. GoneForGood'
  <2> SUFFICES ASSUME NEW i \in DOMAIN report, report[i].section \in DOMAIN LooksLike,
                      SeenGone(report[i])
               PROVE  (~Finds(LooksLike[report[i].section]))'
    BY DEF GoneForGood
  <2>1. ~Finds(LooksLike[report[i].section])
    BY DEF KubeInv, GoneForGood
  <2> QED
    BY <2>1, FindsLess DEF Finds
<1>2. NeverReappears' /\ (InMainsOrder => InMainsOrder')
  BY DEF KubeInv, NeverReappears, InMainsOrder
<1>3. \A s : Asked(s)' <=> Asked(s)
  BY AskedKept
<1>4. ASSUME UNCHANGED at, Accounted
      PROVE  Accounted'
  BY <1>2, <1>3, <1>4 DEF Accounted
<1>5. QED
  BY <1>1, <1>2, <1>4

\* main() returns with 1 and nothing printed, or with 0 behind the last section.
LEMMA Exits ==
  ASSUME KubeInv, UNCHANGED <<input, alive>>, pc # "exit", NEW c \in {0, 1}, ExitWith(c),
         c = 1 => report = <<>>, c = 0 => at > Len(Sections)
  PROVE  KubeInv'
<1>1. pc' = "exit" /\ code' = c /\ UNCHANGED <<at, report>>
  BY DEF ExitWith
<1>2. TypeOK'
  BY <1>1 DEF KubeInv, TypeOK, input
<1>3. SectionsAreIndependent'
  <2>1. ASSUME c = 0
        PROVE  /\ Reported = {s \in ToSet(Sections) : Asked(s)}
               /\ InMainsOrder /\ ~JsonDump
    <3>1. Accounted /\ at \in 0..15 /\ at > 14
      <4>1. Accounted /\ at \in 0..Len(Sections) + 1
        BY DEF KubeInv, TypeOK
      <4>2. at > Len(Sections)
        BY <2>1
      <4> QED
        BY <4>1, <4>2, SectionsFacts
    <3>2. 1..at - 1 = DOMAIN Sections
      BY <3>1, SectionsFacts
    <3>3. ~JsonDump
      BY <3>1 DEF KubeInv
    <3> QED
      BY <3>1, <3>2, <3>3 DEF Accounted, ToSet, Reported
  <2>2. {s \in ToSet(Sections) : Asked(s)}' = {s \in ToSet(Sections) : Asked(s)}
    BY AskedKept
  <2>3. Reported' = Reported /\ (InMainsOrder' <=> InMainsOrder) /\ (JsonDump' <=> JsonDump)
    BY <1>1, JsonDumpKept DEF InMainsOrder, Reported
  <2>4. c = 1 => report' = <<>>
    BY <1>1
  <2> QED
    BY <1>1, <2>1, <2>2, <2>3, <2>4 DEF SectionsAreIndependent
<1>4. GoneForGood' /\ NeverReappears' /\ (at = 0 => report = <<>>)'
  BY <1>1, ReportKept DEF KubeInv
<1> QED
  BY <1>1, <1>2, <1>3, <1>4 DEF KubeInv, FoundBefore

\* A lookup that finds the pod is followed by the read of its files.
LEMMA LooksUp ==
  ASSUME KubeInv, UNCHANGED <<input, alive, at, report, code>>, pc = "run", pc' = "read",
         at \in DOMAIN Sections, Asked(Here), Finds(LooksLike[Here]),
         Here \in {"cgroup", "psi", "events", "perf"}
  PROVE  KubeInv'
<1>1. TypeOK' /\ code' = 0 /\ (at = 0 => report = <<>>)'
  BY DEF KubeInv, TypeOK, input
<1>2. GoneForGood' /\ NeverReappears' /\ Accounted' /\ (JsonDump' <=> JsonDump)
  BY ReportKept, JsonDumpKept DEF KubeInv
<1>3. /\ at' \in DOMAIN Sections /\ Here' = Here /\ Asked(Here)'
      /\ alive' => Finds(LooksLike[Here])'
  <2>1. Here' = Here /\ alive' = alive
    BY DEF Here
  <2>2. \A s : Asked(s)' <=> Asked(s)
    BY AskedKept
  <2>3. alive' => Finds(LooksLike[Here])'
    BY <2>1, FindsLess DEF Finds
  <2> QED
    BY <2>1, <2>2, <2>3
<1> QED
  BY <1>1, <1>2, <1>3 DEF KubeInv, FoundBefore, SectionsAreIndependent

\* The pod goes in mid-report, and does not come back.
LEMMA DeletedStep ==
  ASSUME KubeInv, PodDeleted
  PROVE  KubeInv'
<1>1. UNCHANGED <<input, pc, at, report, code>> /\ alive' = FALSE /\ alive /\ pc # "exit"
  BY DEF PodDeleted
<1>2. TypeOK' /\ (at = 0 => report = <<>>)' /\ (pc # "exit" => code = 0)'
  BY <1>1 DEF KubeInv, TypeOK, input
<1>3. GoneForGood' /\ NeverReappears' /\ Accounted' /\ (JsonDump' <=> JsonDump)
  BY <1>1, ReportKept, JsonDumpKept DEF KubeInv
<1>4. FoundBefore'
  <2>1. Here' = Here
    BY <1>1 DEF Here
  <2>2. \A s : Asked(s)' <=> Asked(s)
    BY <1>1, AskedKept
  <2> QED
    BY <1>1, <2>1, <2>2 DEF KubeInv, FoundBefore
<1> QED
  BY <1>1, <1>2, <1>3, <1>4 DEF KubeInv, SectionsAreIndependent

\* The first test of main(), and the sections that are not asked for.
LEMMA PassStep ==
  ASSUME KubeInv, ParseFlags \/ Skip
  PROVE  KubeInv'
<1>1. UNCHANGED <<input, alive>> /\ pc = "run" /\ code = 0 /\ at \in Nat
  <2>1. UNCHANGED <<input, alive>> /\ pc = "run"
    BY DEF ParseFlags, Skip
  <2>2. code = 0 /\ at \in 0..Len(Sections) + 1
    BY <2>1 DEF KubeInv, TypeOK
  <2> QED
    BY <2>1, <2>2, SectionsFacts
<1>2. CASE ParseFlags /\ ExitWith(1)
  <2>1. at = 0
    BY <1>2 DEF ParseFlags
  <2>2. report = <<>> /\ pc # "exit" /\ 1 \in {0, 1} /\ 1 # 0
    BY <1>1, <2>1 DEF KubeInv
  <2> QED
    BY <1>1, <1>2, <2>2, Exits
<1>3. CASE at' = at + 1 /\ UNCHANGED <<pc, report, code>>
  <2>1. ASSUME at \in 0..14, Accounted', at = 1 => ~JsonDump
        PROVE  KubeInv'
    <3>1. TypeOK' /\ at' # 0
      <4>1. /\ driver' \in Drivers /\ uid' \in {"dashes", "plain"}
            /\ query' \in Spellings \cup {""} /\ flags' \in FlagSets /\ alive' \in BOOLEAN
            /\ pc' \in {"run", "read", "exit"} /\ report' \in Seq(Rows) /\ code' \in {0, 1}
        BY <1>1, <1>3 DEF KubeInv, TypeOK, input
      <4>2. at' \in 0..Len(Sections) + 1 /\ at' # 0
        BY <1>3, <2>1, SectionsFacts
      <4> QED
        BY <4>1, <4>2 DEF TypeOK
    <3>2. GoneForGood' /\ NeverReappears'
      BY <1>1, <1>3, ReportKept
    <3>3. at' > 1 => ~JsonDump'
      BY <1>1, <1>3, <2>1, JsonDumpKept DEF KubeInv
    <3> QED
      BY <1>1, <1>3, <2>1, <3>1, <3>2, <3>3 DEF KubeInv, FoundBefore, SectionsAreIndependent
  <2>2. \A s : Asked(s)' <=> Asked(s)
    BY <1>1, AskedKept
  <2>3. CASE ParseFlags
    <3>1. at = 0 /\ report = <<>>
      BY <2>3 DEF ParseFlags, KubeInv
    <3>2. 1..at' - 1 = {} /\ DOMAIN report' = {}
      BY <1>3, <3>1
    <3>3. Accounted'
      BY <3>2 DEF Accounted, InMainsOrder
    <3> QED
      BY <2>1, <3>1, <3>3
  <2>4. CASE Skip
    <3>1. Accounted /\ ~Asked(Sections[at]) /\ at \in 1..14
      BY <1>1, <2>4, SectionsFacts DEF KubeInv, Skip, Here
    <3>2. at' - 1 = at
      BY <1>1, <1>3
    <3>3. \A k \in 1..at : k \in 1..at - 1 \/ k = at
      BY <1>1
    <3>4. \A k \in 1..at - 1 : k \in 1..at
      BY <1>1
    <3>5. Accounted'
      BY <1>3, <2>2, <3>1, <3>2, <3>3, <3>4 DEF Accounted, InMainsOrder
    <3>6. at = 1 => ~JsonDump
      BY <3>1, SectionsFacts DEF Asked, JsonDump
    <3> QED
      BY <2>1, <3>1, <3>5, <3>6
  <2> QED
    BY <2>3, <2>4
<1>4. \/ ParseFlags /\ ExitWith(1)
      \/ at' = at + 1 /\ UNCHANGED <<pc, report, code>>
  <2>1. CASE ParseFlags
    <3>1. ASSUME at = 0, at' = 1 /\ UNCHANGED <<pc, report, code>>
          PROVE  at' = at + 1 /\ UNCHANGED <<pc, report, code>>
      BY <3>1
    <3> QED
      BY <2>1, <3>1 DEF ParseFlags
  <2>2. CASE Skip
    BY <2>2 DEF Skip
  <2> QED
    BY <2>1, <2>2
<1> QED
  BY <1>2, <1>3, <1>4

\* A section writes its line, which is true to what the lookups find.
LEMMA LineStep ==
  ASSUME KubeInv, UNCHANGED <<input, alive>>, NEW S, AtSection(S), NEW outcome \in Outcomes,
         Section(outcome), TrueLine(Here, outcome), "processes" \notin S
  PROVE  KubeInv'
<1>1. pc # "exit" /\ at \in DOMAIN Sections /\ Asked(Here) /\ Here # "processes"
  BY DEF AtSection
<1> QED
  BY <1>1, RowAdded

\* The list of processes is the first section, so nothing is printed when it fails.
LEMMA ListProcessesStep ==
  ASSUME KubeInv, ListProcesses
  PROVE  KubeInv'
<1>1. /\ UNCHANGED <<input, alive>> /\ pc = "run" /\ Here = "processes" /\ Asked(Here)
      /\ at \in DOMAIN Sections
  BY DEF ListProcesses, AtSection
<1>2. at = 1 /\ code = 0 /\ report \in Seq(Rows) /\ Accounted
  <2>1. code = 0 /\ report \in Seq(Rows) /\ Accounted
    BY <1>1 DEF KubeInv, TypeOK
  <2>2. at \in 1..14 /\ (at \in 2..14 => Here # "processes")
    BY <1>1, SectionsFacts DEF Here
  <2> QED
    BY <1>1, <2>1, <2>2
<1>3. report = <<>>
  <2>1. 1..at - 1 = {}
    BY <1>2
  <2>2. DOMAIN report = {}
    BY <1>2, <2>1 DEF Accounted
  <2> QED
    BY <1>2, <2>2
<1> DEFINE outcome == IF ProcMatch THEN "data" ELSE "empty"
<1>4. outcome \in Outcomes /\ TrueLine(Here, outcome)
  BY <1>1, Ways DEF Outcomes, TrueLine, Finds, SeenGone
<1>5. CASE ExitWith(1)
  <2>1. pc # "exit" /\ 1 \in {0, 1} /\ 1 # 0
    BY <1>1
  <2> QED
    BY <1>1, <1>3, <1>5, <2>1, Exits
<1>6. CASE ~JsonDump /\ Section(outcome)
  <2>1. pc # "exit"
    BY <1>1
  <2> HIDE DEF outcome
  <2> QED
    BY <1>1, <1>4, <1>6, <2>1, RowAdded
<1>7. CASE /\ JsonDump /\ report' = <<[section |-> "processes", outcome |-> outcome]>>
           /\ pc' = "exit" /\ UNCHANGED <<at, code>>
  <2> DEFINE r == [section |-> Here, outcome |-> outcome]
  <2>1. r \in Rows /\ r.section = "processes" /\ r.outcome = outcome
    BY <1>1, <1>4 DEF Rows, Here, ToSet
  <2>2. report' = <<r>>
    BY <1>1, <1>7
  <2>3. /\ SeenGone(r) => ~Finds(LooksLike["processes"])
    BY <1>1, <1>4, Ways DEF TrueLine
  <2> HIDE DEF r
  <2>4. report' \in Seq(Rows) /\ DOMAIN report' = {1} /\ report'[1] = r
    BY <2>1, <2>2
  <2>5. TypeOK'
    <3>1. /\ driver' \in Drivers /\ uid' \in {"dashes", "plain"}
          /\ query' \in Spellings \cup {""} /\ flags' \in FlagSets /\ alive' \in BOOLEAN
          /\ pc' \in {"run", "read", "exit"} /\ code' \in {0, 1} /\ at' \in 0..Len(Sections) + 1
      BY <1>1, <1>7 DEF KubeInv, TypeOK, input
    <3> QED
      BY <2>4, <3>1 DEF TypeOK
  <2>6. GoneForGood'
    <3>1. SeenGone(r) => ~Finds(LooksLike["processes"])'
      BY <1>1, <2>3, FindsLess DEF Finds
    <3> QED
      BY <2>1, <2>4, <3>1 DEF GoneForGood
  <2>7. NeverReappears'
    BY <2>4 DEF NeverReappears
  <2>8. JsonDump' /\ code' # 1 /\ at' # 0
    <3>1. JsonDump'
      BY <1>1, <1>7, JsonDumpKept
    <3>2. code' # 1 /\ at' # 0
      BY <1>2, <1>7
    <3> QED
      BY <3>1, <3>2
  <2>9. SectionsAreIndependent'
    <3>1. Reported' = {"processes"}
      BY <2>1, <2>4 DEF Reported
    <3>2. InMainsOrder'
      BY <2>4 DEF InMainsOrder
    <3> QED
      BY <2>8, <3>1, <3>2 DEF SectionsAreIndependent
  <2> QED
    BY <1>7, <2>5, <2>6, <2>7, <2>8, <2>9 DEF KubeInv, FoundBefore
<1> QED
  BY <1>5, <1>6, <1>7 DEF ListProcesses

\* The sections that look for processes, cpusets or node files and need no second read.
LEMMA PlainStep ==
  ASSUME KubeInv,
         Namespaces \/ OfProcesses \/ Sched \/ NodePressure \/ Health \/ Virt \/ Arch
  PROVE  KubeInv'
<1>1. UNCHANGED <<input, alive>>
  BY DEF Namespaces, OfProcesses, Sched, NodePressure, Health, Virt, Arch
<1>2. {"error", "data", "empty", "partial"} \subseteq Outcomes
  BY DEF Outcomes
<1>3. ASSUME NEW S, AtSection(S), NEW outcome \in {"error", "data", "partial"},
             Section(outcome), S \cap DOMAIN LooksLike = {}
      PROVE  KubeInv'
  <2>1. outcome \in Outcomes /\ "processes" \notin S
    BY <1>2, <1>3, Ways
  <2>2. TrueLine(Here, outcome)
    BY <1>3 DEF TrueLine, AtSection
  <2> QED
    BY <1>1, <1>3, <2>1, <2>2, LineStep
<1>4. CASE Namespaces
  <2>1. PICK outcome \in {"error", IF ProcMatch THEN "data" ELSE "empty"} : Section(outcome)
    BY <1>4 DEF Namespaces
  <2>2. AtSection({"namespaces"}) /\ Here = "namespaces"
    BY <1>4 DEF Namespaces, AtSection
  <2>3. outcome \in Outcomes /\ TrueLine(Here, outcome)
    <3>1. CASE outcome = "error"
      BY <1>2, <2>2, <3>1, Ways DEF TrueLine, SeenGone
    <3>2. CASE outcome = IF ProcMatch THEN "data" ELSE "empty"
      BY <1>2, <2>2, <3>2, Ways DEF TrueLine, Finds, SeenGone
    <3> QED
      BY <2>1, <3>1, <3>2
  <2> QED
    BY <1>1, <2>1, <2>2, <2>3, LineStep
<1>5. CASE OfProcesses
  <2>1. AtSection({"mounts", "netns", "ebpf"})
        /\ \E outcome \in {"error", "data", "partial"} : Section(outcome)
    BY <1>5 DEF OfProcesses
  <2>2. {"mounts", "netns", "ebpf"} \cap DOMAIN LooksLike = {}
    BY Ways
  <2> QED
    BY <1>3, <2>1, <2>2
<1>6. CASE Sched
  <2>1. AtSection({"sched"}) /\ \E outcome \in {"error", "data", "partial"} : Section(outcome)
    BY <1>6 DEF Sched
  <2>2. {"sched"} \cap DOMAIN LooksLike = {}
    BY Ways
  <2> QED
    BY <1>3, <2>1, <2>2
<1>7. CASE NodePressure
  <2>1. /\ AtSection({"pressure"})
        /\ \E outcome \in {"error", "data", "partial"} : Section(outcome)
    BY <1>7 DEF NodePressure
  <2>2. {"pressure"} \cap DOMAIN LooksLike = {}
    BY Ways
  <2> QED
    BY <1>3, <2>1, <2>2
<1>8. CASE Health \/ Virt \/ Arch
  <2>1. PICK s \in {"health", "virt", "arch"} : AtSection({s}) /\ Section("data")
    BY <1>8 DEF Health, Virt, Arch
  <2>2. {s} \cap DOMAIN LooksLike = {}
    BY Ways
  <2> QED
    BY <1>3, <2>1, <2>2
<1> QED
  BY <1>4, <1>5, <1>6, <1>7, <1>8

\* The four sections that look a cgroup up, which they find now, or end at once.
LEMMA LookUpStep ==
  ASSUME KubeInv, LookUpCgroup \/ LookUpGlob
  PROVE  KubeInv'
<1>1. PICK S \in {{"cgroup", "psi"}, {"events", "perf"}} :
        /\ AtSection(S) /\ UNCHANGED <<input, alive>> /\ "processes" \notin S
        /\ \/ Finds(LooksLike[Here]) /\ pc' = "read" /\ UNCHANGED <<at, report, code>>
           \/ ~Finds(LooksLike[Here]) /\ Section("error")
  <2>1. CASE LookUpCgroup
    <3>1. AtSection({"cgroup", "psi"}) /\ UNCHANGED <<input, alive>>
      BY <2>1 DEF LookUpCgroup
    <3>2. Finds(LooksLike[Here]) <=> WalkMatch
      BY <3>1, Ways DEF AtSection, Finds
    <3> QED
      BY <2>1, <3>1, <3>2 DEF LookUpCgroup
  <2>2. CASE LookUpGlob
    <3>1. AtSection({"events", "perf"}) /\ UNCHANGED <<input, alive>>
      BY <2>2 DEF LookUpGlob
    <3>2. Finds(LooksLike[Here]) <=> GlobMatch
      BY <3>1, Ways DEF AtSection, Finds
    <3> QED
      BY <2>2, <3>1, <3>2 DEF LookUpGlob
  <2> QED
    BY <2>1, <2>2
<1>2. /\ pc = "run" /\ at \in DOMAIN Sections /\ Asked(Here)
      /\ Here \in {"cgroup", "psi", "events", "perf"}
  BY <1>1 DEF AtSection
<1>3. CASE Finds(LooksLike[Here]) /\ pc' = "read" /\ UNCHANGED <<at, report, code>>
  BY <1>1, <1>2, <1>3, LooksUp
<1>4. CASE ~Finds(LooksLike[Here]) /\ Section("error")
  <2>1. "error" \in Outcomes /\ TrueLine(Here, "error")
    BY <1>4 DEF Outcomes, TrueLine
  <2> QED
    BY <1>1, <1>4, <2>1, LineStep
<1> QED
  BY <1>1, <1>3, <1>4

\* Between the lookup and the read the pod can go, and the line says so.
LEMMA ReadStep ==
  ASSUME KubeInv, ReadCgroupFiles \/ ReadGlobFile
  PROVE  KubeInv'
<1>1. /\ pc = "read" /\ UNCHANGED <<input, alive>>
      /\ \E lost \in {"zeros", "error"} : Section(IF alive THEN "data" ELSE lost)
  BY DEF ReadCgroupFiles, ReadGlobFile
<1>2. PICK lost \in {"zeros", "error"} : Section(IF alive THEN "data" ELSE lost)
  BY <1>1
<1> DEFINE outcome == IF alive THEN "data" ELSE lost
<1>3. /\ at \in DOMAIN Sections /\ Asked(Here) /\ (alive => Finds(LooksLike[Here]))
      /\ Here \in {"cgroup", "psi", "events", "perf"}
  BY <1>1 DEF KubeInv, FoundBefore
<1>4. outcome \in Outcomes
  BY DEF Outcomes
<1>5. TrueLine(Here, outcome)
  <2>1. CASE alive
    <3>1. outcome = "data" /\ Finds(LooksLike[Here])
      BY <1>3, <2>1
    <3>2. ~SeenGone([section |-> Here, outcome |-> "data"])
      BY DEF SeenGone
    <3> QED
      BY <3>1, <3>2 DEF TrueLine
  <2>2. CASE ~alive
    <3>1. outcome # "data" /\ ~Finds(LooksLike[Here])
      BY <2>2 DEF Finds, WalkMatch, GlobMatch, ProcMatch
    <3> QED
      BY <3>1 DEF TrueLine
  <2> QED
    BY <2>1, <2>2
<1> HIDE DEF outcome
<1>6. Section(outcome) /\ pc # "exit" /\ Here # "processes"
  BY <1>1, <1>2, <1>3 DEF outcome
<1> QED
  BY <1>1, <1>3, <1>4, <1>5, <1>6, RowAdded

\* Behind the last section main() returns.
LEMMA ReturnStep ==
  ASSUME KubeInv, Return
  PROVE  KubeInv'
<1>1. /\ UNCHANGED <<input, alive>> /\ pc # "exit" /\ at > Len(Sections) /\ ExitWith(0)
      /\ 0 \in {0, 1} /\ 0 # 1
  BY DEF Return
<1> QED
  BY <1>1, Exits

\* Every step of the tool, and the deletion of the pod, keeps the invariant.
LEMMA KubeInvStep == KubeInv /\ [Next]_vars => KubeInv'
<1> SUFFICES ASSUME KubeInv, [Next]_vars PROVE KubeInv'
  OBVIOUS
<1>1. CASE PodDeleted
  BY <1>1, DeletedStep
<1>2. CASE ParseFlags \/ Skip
  BY <1>2, PassStep
<1>3. CASE ListProcesses
  BY <1>3, ListProcessesStep
<1>4. CASE Namespaces \/ OfProcesses \/ Sched \/ NodePressure \/ Health \/ Virt \/ Arch
  BY <1>4, PlainStep
<1>5. CASE LookUpCgroup \/ LookUpGlob
  BY <1>5, LookUpStep
<1>6. CASE ReadCgroupFiles \/ ReadGlobFile
  BY <1>6, ReadStep
<1>7. CASE Return
  BY <1>7, ReturnStep
<1>8. CASE UNCHANGED vars
  <2>1. UNCHANGED <<input, alive, pc, at, report, code>>
    BY <1>8 DEF vars
  <2>2. GoneForGood' /\ NeverReappears' /\ (Accounted => Accounted')
    BY <2>1, ReportKept
  <2>3. TypeOK' /\ (InMainsOrder' <=> InMainsOrder) /\ Here' = Here
    <3>1. TypeOK'
      BY <2>1 DEF KubeInv, TypeOK, input
    <3> QED
      BY <2>1, <3>1 DEF InMainsOrder, Here
  <2>4. FoundBefore'
    BY <2>1, <2>3 DEF KubeInv, FoundBefore, Asked, Finds, WalkMatch, GlobMatch, ProcMatch,
                     DirSpelling, PodRoot, input
  <2>5. SectionsAreIndependent'
    BY <2>1, <2>3 DEF KubeInv, SectionsAreIndependent, Asked, Reported, JsonDump, input
  <2> QED
    BY <2>1, <2>2, <2>3, <2>4, <2>5, JsonDumpKept DEF KubeInv
<1> QED
  BY <1>1, <1>2, <1>3, <1>4, <1>5, <1>6, <1>7, <1>8 DEF Next, Main

-----------------------------------------------------------------------------
(***************************************************************************)
(* The invariant of main(), for every node, pod and set of flags.          *)
(***************************************************************************)
THEOREM KubeInvariant == Spec => []KubeInv
  BY KubeInit, KubeInvStep, PTL DEF Spec

(***************************************************************************)
(* main() stays within its sections and its exit codes, and prints only    *)
(* lines of a section with one of the five outcomes.                       *)
(***************************************************************************)
THEOREM KubeTypeCorrect == Spec => []TypeOK
<1>1. KubeInv => TypeOK
  BY DEF KubeInv
<1> QED
  BY <1>1, KubeInvariant, PTL

(***************************************************************************)
(* Whatever fails on the way and whatever sections are asked for, a run    *)
(* without --node that gets past the process list prints one line for each *)
(* section that the flags ask for, in main()'s order, or, with --json and  *)
(* --pod, the process list and no other; with any flags status 1 is given  *)
(* only with nothing printed. What --node should print is no part of it.   *)
(***************************************************************************)
THEOREM KubeSectionsAreIndependent == Spec => []SectionsAreIndependent
<1>1. KubeInv => SectionsAreIndependent
  BY DEF KubeInv
<1> QED
  BY <1>1, KubeInvariant, PTL

(***************************************************************************)
(* A pod that one section has seen gone is shown by no later section that  *)
(* looks it up in the same way, wherever its deletion falls.               *)
(***************************************************************************)
THEOREM KubeNeverReappears == Spec => []NeverReappears
<1>1. KubeInv => NeverReappears
  BY DEF KubeInv
<1> QED
  BY <1>1, KubeInvariant, PTL
=============================================================================
