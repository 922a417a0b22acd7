-------------------------- MODULE ShiftRulesProofs --------------------------
(***************************************************************************)
(* Proofs about ShiftRules: what is saved and published stays in step with *)
(* what is shown, and with the days of the schedule.                       *)
(***************************************************************************)
EXTENDS ShiftRules, SequenceTheorems, TLAPS

-----------------------------------------------------------------------------
(***************************************************************************)
(* What the editor sends and what is saved of it.                          *)
(***************************************************************************)
LEMMA RuleIsRecord ==
    ASSUME RulesTypeOK, NEW r \in DOMAIN rules
    PROVE  /\ rules[r] \in RuleRecord
           /\ rules[r].status \in RuleStatus
           /\ rules[r].start \in Nat
           /\ rules[r].cycle \in Nat \ {0}
           /\ rules[r].versions \in Seq(Versions)
<1>1. rules[r] \in RuleRecord
  BY DEF RulesTypeOK
<1> QED
  BY <1>1 DEF RuleRecord

LEMMA SentIsNumber ==
    ASSUME RulesTypeOK, NEW e \in Edits, NEW r \in DOMAIN rules
    PROVE  /\ Sent(e.start, rules[r].start) \in Nat
           /\ Sent(e.cycle, rules[r].cycle) \in Nat \ {0}
BY RuleIsRecord, RulesAssumption DEF Sent

LEMMA LatestIsVersion ==
    ASSUME RulesTypeOK, NEW r \in DOMAIN rules, rules[r].versions # <<>>
    PROVE  /\ rules[r].versions \in Seq(Versions)
           /\ Len(rules[r].versions) \in DOMAIN rules[r].versions
           /\ Latest(r) \in Versions
<1>1. rules[r].versions \in Seq(Versions)
  BY RuleIsRecord
<1>2. Len(rules[r].versions) \in DOMAIN rules[r].versions
  BY <1>1
<1> QED
  BY <1>1, <1>2 DEF Latest

\* What passes _validate_cells is saved as a version with enough days.
LEMMA DraftIsVersion ==
    ASSUME RulesTypeOK, NEW s \in Nat, NEW c \in Nat \ {0}, NEW p \in Seq(Teams),
           NEW ds \in SUBSET Defs, ValidCells(c, p, ds)
    PROVE  /\ Draft(s, c, p, ds) \in Versions
           /\ Draft(s, c, p, ds).plan = <<>> \/ Draft(s, c, p, ds).cycle <= Len(Draft(s, c, p, ds).plan)
BY DEF Draft, Versions, ValidCells

\* A rule of which the k-th version is appended.
LEMMA AppendedVersion ==
    ASSUME NEW vs \in Seq(Versions), NEW v \in Versions
    PROVE  /\ Append(vs, v) \in Seq(Versions)
           /\ Len(Append(vs, v)) = Len(vs) + 1
           /\ DOMAIN Append(vs, v) = DOMAIN vs \cup {Len(vs) + 1}
           /\ \A k \in DOMAIN vs : Append(vs, v)[k] = vs[k]
           /\ Append(vs, v)[Len(vs) + 1] = v
OBVIOUS

\* The version that SaveVersion appends.
LEMMA SavedDraft ==
    ASSUME RulesTypeOK, NEW r \in DOMAIN rules, NEW e \in Edits,
           SaveVersion(r, e.start, e.cycle, e.plan)
    PROVE  \E v \in Versions :
             /\ v.plan = <<>> \/ v.cycle <= Len(v.plan)
             /\ v.status = "draft"
             /\ rules' = [rules EXCEPT ![r] =
                  [status   |-> IF @.status = "superseded" THEN "draft" ELSE @.status,
                   start    |-> v.start,
                   cycle    |-> v.cycle,
                   versions |-> Append(@.versions, v)]]
<1> DEFINE s == Sent(e.start, rules[r].start)
           c == Sent(e.cycle, rules[r].cycle)
           p == IF e.plan # Keep THEN e.plan ELSE Latest(r).plan
           ds == IF e.plan # Keep THEN enabledDefs ELSE Latest(r).defs
           v == Draft(s, c, p, ds)
<1>1. s \in Nat /\ c \in Nat \ {0}
  BY SentIsNumber
<1>2. p \in Seq(Teams) /\ ds \in SUBSET Defs
  <2>1. CASE e.plan # Keep
    BY <2>1, RulesAssumption DEF RulesTypeOK
  <2>2. CASE e.plan = Keep
    <3>1. rules[r].versions # <<>>
      BY <2>2 DEF SaveVersion, SavesVersion
    <3>2. Latest(r) \in Versions
      BY <3>1, LatestIsVersion
    <3> QED
      BY <2>2, <3>2 DEF Versions
  <2> QED
    BY <2>1, <2>2
<1>3. ValidCells(c, p, ds)
  BY DEF SaveVersion
<1>4. v \in Versions /\ (v.plan = <<>> \/ v.cycle <= Len(v.plan))
  <2> HIDE DEF s, c, p, ds
  <2> QED
    BY <1>1, <1>2, <1>3, DraftIsVersion
<1>5. v.status = "draft" /\ v.start = s /\ v.cycle = c
  BY DEF Draft
<1>6. rules' = [rules EXCEPT ![r] =
                  [status   |-> IF @.status = "superseded" THEN "draft" ELSE @.status,
                   start    |-> s,
                   cycle    |-> c,
                   versions |-> Append(@.versions, v)]]
  BY DEF SaveVersion
<1> QED
  <2> HIDE DEF s, c, v
  <2> QED
    BY <1>4, <1>5, <1>6

\* publish_shift_rule writes statuses and nothing else of the rules.
LEMMA PublishedRules ==
    ASSUME RulesTypeOK, NEW r \in DOMAIN rules, PublishRule(r)
    PROVE  /\ rules' \in Seq(RuleRecord) /\ DOMAIN rules' = DOMAIN rules
           /\ \A q \in DOMAIN rules :
                /\ rules'[q].start = rules[q].start /\ rules'[q].cycle = rules[q].cycle
                /\ DOMAIN rules'[q].versions = DOMAIN rules[q].versions
                /\ Len(rules'[q].versions) = Len(rules[q].versions)
                /\ rules'[q].status = "published" <=> q = r
                /\ \A k \in DOMAIN rules[q].versions :
                     /\ rules'[q].versions[k] \in Versions
                     /\ rules'[q].versions[k].start = rules[q].versions[k].start
                     /\ rules'[q].versions[k].cycle = rules[q].versions[k].cycle
                     /\ rules'[q].versions[k].plan = rules[q].versions[k].plan
           /\ rules[r].versions # <<>>
           /\ Len(rules[r].versions) \in DOMAIN rules[r].versions
           /\ rules'[r].versions[Len(rules[r].versions)].status = "published"
<1> DEFINE n == Len(rules[r].versions)
           w == [rules[r].versions[n] EXCEPT !.status = "published"]
           pub == [rules[r] EXCEPT !.status = "published", !.versions = [@ EXCEPT ![n] = w]]
           new(q) == IF q = r THEN pub
                     ELSE IF rules[q].status = "published"
                          THEN [rules[q] EXCEPT !.status = "superseded"] ELSE rules[q]
<1>1. rules[r].versions # <<>>
  BY DEF PublishRule, Publishable
<1>2. /\ rules[r].versions \in Seq(Versions) /\ n \in DOMAIN rules[r].versions
      /\ rules[r].versions[n] \in Versions
  BY <1>1, LatestIsVersion DEF Latest
<1>3. /\ w \in Versions /\ w.status = "published"
      /\ w.start = rules[r].versions[n].start
      /\ w.cycle = rules[r].versions[n].cycle
      /\ w.plan = rules[r].versions[n].plan
  BY <1>2 DEF Versions
<1>4. /\ [rules[r].versions EXCEPT ![n] = w] \in Seq(Versions)
      /\ Len([rules[r].versions EXCEPT ![n] = w]) = n
  <2> HIDE DEF w
  <2> QED
    BY <1>2, <1>3, ExceptSeq
<1>5. rules' = [q \in DOMAIN rules |-> new(q)]
  BY DEF PublishRule
<1>6. /\ pub \in RuleRecord /\ pub.status = "published"
      /\ pub.start = rules[r].start /\ pub.cycle = rules[r].cycle
      /\ pub.versions = [rules[r].versions EXCEPT ![n] = w]
  <2> HIDE DEF w, n
  <2> QED
    BY <1>4, RuleIsRecord DEF RuleRecord, RuleStatus
<1>7. \A q \in DOMAIN rules : q # r =>
        /\ new(q) \in RuleRecord /\ new(q).status # "published"
        /\ new(q).start = rules[q].start /\ new(q).cycle = rules[q].cycle
        /\ new(q).versions = rules[q].versions
  BY RuleIsRecord DEF RuleRecord, RuleStatus
<1> HIDE DEF pub
<1>8. \A q \in DOMAIN rules : rules'[q] = new(q) /\ new(q) \in RuleRecord
  BY <1>5, <1>6, <1>7
<1>9. rules' \in Seq(RuleRecord) /\ DOMAIN rules' = DOMAIN rules
  <2>1. rules \in Seq(RuleRecord)
    BY DEF RulesTypeOK
  <2>2. PICK m \in Nat : rules \in [1..m -> RuleRecord]
    BY <2>1, SeqDef
  <2>3. rules' \in [1..m -> RuleRecord]
    <3> HIDE DEF new
    <3> QED
      BY <1>5, <1>8, <2>2
  <2>4. rules' \in Seq(RuleRecord)
    BY <2>3, SeqDef
  <2>5. DOMAIN rules' = DOMAIN rules
    BY <2>2, <2>3
  <2> QED
    BY <2>4, <2>5
<1>10. ASSUME NEW q \in DOMAIN rules
       PROVE  /\ rules'[q].start = rules[q].start /\ rules'[q].cycle = rules[q].cycle
              /\ DOMAIN rules'[q].versions = DOMAIN rules[q].versions
              /\ Len(rules'[q].versions) = Len(rules[q].versions)
              /\ rules'[q].status = "published" <=> q = r
              /\ \A k \in DOMAIN rules[q].versions :
                   /\ rules'[q].versions[k] \in Versions
                   /\ rules'[q].versions[k].start = rules[q].versions[k].start
                   /\ rules'[q].versions[k].cycle = rules[q].versions[k].cycle
                   /\ rules'[q].versions[k].plan = rules[q].versions[k].plan
  <2>1. CASE q # r
    <3>1. rules'[q].versions = rules[q].versions
      BY <1>7, <1>8, <2>1
    <3>2. \A k \in DOMAIN rules[q].versions : rules[q].versions[k] \in Versions
      BY RuleIsRecord
    <3> QED
      BY <1>7, <1>8, <2>1, <3>1, <3>2
  <2>2. CASE q = r
    <3> HIDE DEF w, n
    <3>1. rules'[q] = pub
      BY <1>8, <2>2
    <3>2. \A k \in DOMAIN rules[q].versions :
             /\ rules[q].versions[k] \in Versions
             /\ rules'[q].versions[k] = IF k = n THEN w ELSE rules[q].versions[k]
      BY <1>2, <1>6, <2>2, <3>1
    <3>3. Len(rules'[q].versions) = Len(rules[q].versions)
      BY <1>4, <1>6, <2>2, <3>1 DEF n
    <3> QED
      BY <1>3, <1>6, <2>2, <3>1, <3>2, <3>3
  <2> QED
    BY <2>1, <2>2
<1>11. rules'[r].versions[n].status = "published"
  <2> HIDE DEF w, n
  <2> QED
    BY <1>2, <1>3, <1>6, <1>8
<1> QED
  BY <1>1, <1>2, <1>9, <1>10, <1>11

-----------------------------------------------------------------------------
(***************************************************************************)
(* The days that are written.                                              *)
(***************************************************************************)
LEMMA RangeIsNumbers ==
    ASSUME RulesTypeOK, NEW v \in Versions, NEW through \in Nat
    PROVE  /\ v.start \in Nat
           /\ GenerationEnd(v, through) \in Nat
           /\ GenerationEnd(v, through) >= v.start + Horizon
           /\ GenerationEnd(v, through) >= today + 1 + Horizon
BY RulesAssumption DEF RulesTypeOK, Versions, GenerationEnd, Later

LEMMA TeamOnTypeOK ==
    ASSUME NEW v \in Versions, Generable(v), NEW d \in Nat, d >= v.start
    PROVE  TeamOn(v, d) \in Teams
<1>1. /\ v.start \in Nat /\ v.cycle \in Nat \ {0} /\ v.plan \in Seq(Teams)
      /\ Len(v.plan) = v.cycle
  BY DEF Versions, Generable
<1>2. (d - v.start) % v.cycle \in 0..(v.cycle - 1)
  BY <1>1
<1>3. ((d - v.start) % v.cycle) + 1 \in 1..Len(v.plan)
  BY <1>1, <1>2
<1> QED
  BY <1>1, <1>3 DEF TeamOn

\* What one call of generate_schedule_from_rule leaves behind.
LEMMA MaterializedDays ==
    ASSUME RulesTypeOK, NEW r \in DOMAIN rules, NEW k \in DOMAIN rules[r].versions,
           NEW through \in Nat, Generable(rules[r].versions[k]), Materialize(r, k, through)
    PROVE  /\ DOMAIN days' = KeptDays(r, k) \cup
                 rules[r].versions[k].start..GenerationEnd(rules[r].versions[k], through)
           /\ KeptDays(r, k) \subseteq DOMAIN days
           /\ \A d \in DOMAIN days' :
                days'[d] = IF d \in KeptDays(r, k) THEN days[d]
                           ELSE [team |-> TeamOn(rules[r].versions[k], d), use |-> "planned"]
           /\ DOMAIN days' \subseteq Nat /\ days' \in [DOMAIN days' -> DayRecord]
           /\ schedule'.rule = r /\ schedule'.version = k
           /\ schedule' \in ScheduleRecord /\ schedule' # NoSchedule
<1> DEFINE v == rules[r].versions[k]
           kept == KeptDays(r, k)
           end == GenerationEnd(v, through)
<1>1. v \in Versions
  BY RuleIsRecord
<1>2. kept \subseteq DOMAIN days
  BY DEF KeptDays
<1>3. days' = [d \in kept \cup v.start..end |->
                 IF d \in kept THEN days[d] ELSE [team |-> TeamOn(v, d), use |-> "planned"]]
  BY DEF Materialize
<1>4. v.start \in Nat /\ end \in Nat
  BY <1>1, RangeIsNumbers
<1>5. /\ schedule' = [rule |-> r, version |-> k]
      /\ schedule'.rule = r /\ schedule'.version = k
  BY DEF Materialize
<1>6. schedule' \in ScheduleRecord /\ schedule' # NoSchedule
  <2>1. r \in Nat
    BY DEF RulesTypeOK
  <2>2. k \in Nat
    BY RuleIsRecord
  <2> QED
    BY <1>5, <2>1, <2>2, RulesAssumption DEF ScheduleRecord
<1> HIDE DEF kept, end
<1>7. DOMAIN days' = kept \cup v.start..end
  BY <1>3
<1>8. \A d \in DOMAIN days' :
         days'[d] = IF d \in kept THEN days[d] ELSE [team |-> TeamOn(v, d), use |-> "planned"]
  BY <1>3
<1>9. DOMAIN days' \subseteq Nat
  BY <1>2, <1>4, <1>7 DEF RulesTypeOK
<1>10. ASSUME NEW d \in DOMAIN days' PROVE days'[d] \in DayRecord
  <2>1. CASE d \in kept
    BY <1>2, <1>8, <2>1 DEF RulesTypeOK
  <2>2. CASE d \notin kept
    <3>1. d \in Nat /\ d >= v.start
      BY <1>4, <1>7, <1>9, <2>2
    <3>2. TeamOn(v, d) \in Teams
      BY <1>1, <3>1, TeamOnTypeOK
    <3> QED
      BY <1>8, <2>2, <3>2 DEF DayRecord
  <2> QED
    BY <2>1, <2>2
<1>11. days' \in [DOMAIN days' -> DayRecord]
  <2>1. days' = [d \in DOMAIN days' |-> days'[d]]
    BY <1>3
  <2> QED
    BY <1>10, <2>1
<1> QED
  BY <1>2, <1>5, <1>6, <1>7, <1>8, <1>9, <1>11 DEF kept, end
-----------------------------------------------------------------------------
(***************************************************************************)
(* Type correctness.                                                       *)
(***************************************************************************)
LEMMA InitRulesTypeOK == RulesInit => RulesTypeOK
<1> SUFFICES ASSUME RulesInit PROVE RulesTypeOK
  OBVIOUS
<1>1. rules \in Seq(RuleRecord) /\ DOMAIN rules = {}
  BY DEF RulesInit
<1>2. DOMAIN days = {} /\ days \in [DOMAIN days -> DayRecord]
  BY DEF RulesInit
<1> QED
  BY <1>1, <1>2, RulesAssumption DEF RulesInit, RulesTypeOK

LongEnough(v) == v.plan = <<>> \/ v.cycle <= Len(v.plan)

\* The steps that change the rules keep their plans long enough.
LEMMA StepRulesTypeOK == RulesTypeOK /\ [RulesNext]_ruleVars => RulesTypeOK'
<1> SUFFICES ASSUME RulesTypeOK, [RulesNext]_ruleVars PROVE RulesTypeOK'
  OBVIOUS
<1>a. /\ today \in 0..LastDay /\ eligible \subseteq Teams /\ enabledDefs \subseteq Defs
      /\ rules \in Seq(RuleRecord) /\ schedule \in ScheduleRecord \cup {NoSchedule}
      /\ schedule # NoSchedule => schedule.rule \in DOMAIN rules
      /\ DOMAIN days \subseteq Nat /\ days \in [DOMAIN days -> DayRecord]
      /\ \A r \in DOMAIN rules : \A k \in DOMAIN rules[r].versions : LongEnough(rules[r].versions[k])
  BY DEF RulesTypeOK, LongEnough
\* What is left to show of a step that only touches the rules.
<1>b. ASSUME UNCHANGED <<today, eligible, enabledDefs, schedule, days>>,
             rules' \in Seq(RuleRecord), DOMAIN rules \subseteq DOMAIN rules',
             \A r \in DOMAIN rules' : \A k \in DOMAIN rules'[r].versions :
                LongEnough(rules'[r].versions[k])
      PROVE  RulesTypeOK'
  BY <1>a, <1>b DEF RulesTypeOK, LongEnough
\* What is left to show of a step that leaves the rules alone.
<1>c. ASSUME UNCHANGED rules,
             today' \in 0..LastDay, eligible' \subseteq Teams, enabledDefs' \subseteq Defs,
             schedule' \in ScheduleRecord \cup {NoSchedule},
             schedule' # NoSchedule => schedule'.rule \in DOMAIN rules,
             DOMAIN days' \subseteq Nat, days' \in [DOMAIN days' -> DayRecord]
      PROVE  RulesTypeOK'
  BY <1>a, <1>c DEF RulesTypeOK, LongEnough
<1>1. ASSUME NEW e \in Edits, Keep \notin {e.start, e.cycle}, e.plan # Keep,
             CreateRule(e.start, e.cycle, e.plan)
      PROVE  RulesTypeOK'
  <2> DEFINE v == Draft(e.start, e.cycle, e.plan, enabledDefs)
             vs == IF e.plan = <<>> THEN <<>> ELSE <<v>>
             new == [status |-> "draft", start |-> e.start, cycle |-> e.cycle, versions |-> vs]
  <2>1. e.start \in Nat /\ e.cycle \in Nat \ {0} /\ e.plan \in Seq(Teams)
    BY <1>1, RulesAssumption
  <2>2. v \in Versions /\ LongEnough(v)
    BY <1>a, <1>1, <2>1, DraftIsVersion DEF CreateRule, LongEnough
  <2> HIDE DEF v
  <2>3. vs \in Seq(Versions) /\ \A k \in DOMAIN vs : LongEnough(vs[k])
    BY <2>2
  <2>4. new \in RuleRecord /\ new.versions = vs
    BY <2>1, <2>3 DEF RuleRecord, RuleStatus
  <2>5. rules' = Append(rules, new)
    BY <1>1 DEF CreateRule, v
  <2> HIDE DEF new, vs
  <2>6. rules' \in Seq(RuleRecord) /\ DOMAIN rules \subseteq DOMAIN rules'
    BY <1>a, <2>4, <2>5
  <2>7. \A r \in DOMAIN rules' : rules'[r] = IF r \in DOMAIN rules THEN rules[r] ELSE new
    BY <1>a, <2>4, <2>5
  <2>8. \A r \in DOMAIN rules' : \A k \in DOMAIN rules'[r].versions : LongEnough(rules'[r].versions[k])
    BY <1>a, <2>3, <2>4, <2>7
  <2> QED
    BY <1>b, <1>1, <2>6, <2>8 DEF CreateRule
<1>2. ASSUME NEW r \in DOMAIN rules, NEW e \in Edits, SaveParameters(r, e.start, e.cycle, e.plan)
      PROVE  RulesTypeOK'
  <2> DEFINE new == [rules[r] EXCEPT !.start = Sent(e.start, @), !.cycle = Sent(e.cycle, @)]
  <2>1. new \in RuleRecord /\ new.versions = rules[r].versions
    BY SentIsNumber, RuleIsRecord DEF RuleRecord
  <2>2. rules' = [rules EXCEPT ![r] = new]
    BY <1>2 DEF SaveParameters
  <2> HIDE DEF new
  <2>3. rules' \in Seq(RuleRecord) /\ DOMAIN rules' = DOMAIN rules
    BY <1>a, <2>1, <2>2
  <2>4. \A q \in DOMAIN rules' : q \in DOMAIN rules /\ rules'[q].versions = rules[q].versions
    BY <1>a, <2>1, <2>2
  <2> QED
    BY <1>a, <1>b, <1>2, <2>3, <2>4 DEF SaveParameters
<1>3. ASSUME NEW r \in DOMAIN rules, NEW e \in Edits, SaveVersion(r, e.start, e.cycle, e.plan)
      PROVE  RulesTypeOK'
  <2>1. PICK v \in Versions :
          /\ LongEnough(v)
          /\ rules' = [rules EXCEPT ![r] =
               [status   |-> IF @.status = "superseded" THEN "draft" ELSE @.status,
                start    |-> v.start,
                cycle    |-> v.cycle,
                versions |-> Append(@.versions, v)]]
    BY <1>3, SavedDraft DEF LongEnough
  <2> DEFINE vs == Append(rules[r].versions, v)
             new == [status   |-> IF rules[r].status = "superseded" THEN "draft" ELSE rules[r].status,
                     start    |-> v.start,
                     cycle    |-> v.cycle,
                     versions |-> vs]
  <2>2. vs \in Seq(Versions) /\ \A k \in DOMAIN vs : LongEnough(vs[k])
    BY <1>a, <2>1, RuleIsRecord, AppendedVersion
  <2> HIDE DEF vs
  <2>3. new \in RuleRecord /\ new.versions = vs
    BY <2>2, RuleIsRecord DEF RuleRecord, RuleStatus, Versions
  <2>4. rules' = [rules EXCEPT ![r] = new]
    BY <2>1 DEF vs
  <2> HIDE DEF new
  <2>5. rules' \in Seq(RuleRecord) /\ DOMAIN rules' = DOMAIN rules
    BY <1>a, <2>3, <2>4
  <2>6. \A q \in DOMAIN rules' : q \in DOMAIN rules /\ rules'[q] = IF q = r THEN new ELSE rules[q]
    BY <1>a, <2>3, <2>4
  <2>7. \A q \in DOMAIN rules' : \A k \in DOMAIN rules'[q].versions : LongEnough(rules'[q].versions[k])
    BY <1>a, <2>2, <2>3, <2>6
  <2> QED
    BY <1>b, <1>3, <2>5, <2>7 DEF SaveVersion
<1>4. ASSUME NEW r \in DOMAIN rules, DeleteRule(r)
      PROVE  RulesTypeOK'
  <2>1. Tombstone \in RuleRecord /\ Tombstone.versions = <<>>
    BY DEF Tombstone, RuleRecord, RuleStatus
  <2>2. rules' = [rules EXCEPT ![r] = Tombstone]
    BY <1>4 DEF DeleteRule
  <2>3. rules' \in Seq(RuleRecord) /\ DOMAIN rules' = DOMAIN rules
    BY <1>a, <2>1, <2>2
  <2>4. \A q \in DOMAIN rules' : q \in DOMAIN rules /\ rules'[q] = IF q = r THEN Tombstone ELSE rules[q]
    BY <1>a, <2>1, <2>2
  <2>5. \A q \in DOMAIN rules' : \A k \in DOMAIN rules'[q].versions : LongEnough(rules'[q].versions[k])
    BY <1>a, <2>1, <2>4
  <2> QED
    BY <1>b, <1>4, <2>3, <2>5 DEF DeleteRule
<1>5. ASSUME NEW r \in DOMAIN rules, PublishRule(r)
      PROVE  RulesTypeOK'
  <2> DEFINE n == Len(rules[r].versions)
  <2>1. /\ n \in DOMAIN rules[r].versions /\ Generable(rules[r].versions[n])
        /\ Materialize(r, n, 0)
    BY <1>5, PublishedRules DEF PublishRule, Publishable, Latest
  <2>2. /\ DOMAIN days' \subseteq Nat /\ days' \in [DOMAIN days' -> DayRecord]
        /\ schedule' \in ScheduleRecord /\ schedule'.rule = r
    <3>1. 0 \in Nat
      OBVIOUS
    <3> HIDE DEF n
    <3> QED
      BY <2>1, <3>1, MaterializedDays
  <2>3. rules' \in Seq(RuleRecord) /\ DOMAIN rules' = DOMAIN rules
    BY <1>5, PublishedRules
  <2>4. ASSUME NEW q \in DOMAIN rules', NEW k \in DOMAIN rules'[q].versions
        PROVE  LongEnough(rules'[q].versions[k])
    <3>1. q \in DOMAIN rules /\ k \in DOMAIN rules[q].versions
      BY <1>5, PublishedRules
    <3>2. LongEnough(rules[q].versions[k])
      BY <1>a, <3>1
    <3>3. /\ rules'[q].versions[k].cycle = rules[q].versions[k].cycle
          /\ rules'[q].versions[k].plan = rules[q].versions[k].plan
      BY <1>5, <3>1, PublishedRules
    <3> QED
      BY <3>2, <3>3 DEF LongEnough
  <2>5. UNCHANGED <<today, eligible, enabledDefs>>
    BY <1>5 DEF PublishRule
  <2> QED
    BY <1>a, <2>2, <2>3, <2>4, <2>5 DEF RulesTypeOK, LongEnough
<1>6. ASSUME NEW through \in Throughs, GenerateDays(through)
      PROVE  RulesTypeOK'
  <2> DEFINE r == schedule.rule
  <2>1. PICK k \in DOMAIN rules[r].versions :
          Generable(rules[r].versions[k]) /\ Materialize(r, k, through)
    BY <1>6 DEF GenerateDays
  <2>2. r \in DOMAIN rules /\ through \in Nat
    BY <1>a, <1>6, RulesAssumption DEF GenerateDays
  <2> HIDE DEF r
  <2>3. /\ DOMAIN days' \subseteq Nat /\ days' \in [DOMAIN days' -> DayRecord]
        /\ schedule' \in ScheduleRecord /\ schedule'.rule = r
    BY <2>1, <2>2, MaterializedDays
  <2> QED
    BY <1>a, <1>c, <1>6, <2>2, <2>3 DEF GenerateDays
<1>7. ASSUME NEW d \in DOMAIN days, EditDay(d) \/ FileDocument(d)
      PROVE  RulesTypeOK'
  <2>1. PICK u \in {"edited", "referenced"} : days' = [days EXCEPT ![d].use = u]
    BY <1>7 DEF EditDay, FileDocument
  <2>2. days' \in [DOMAIN days -> DayRecord]
    BY <1>a, <2>1 DEF DayRecord
  <2> QED
    BY <1>a, <1>c, <1>7, <2>2 DEF EditDay, FileDocument
<1>8. ASSUME NEW t \in Leavers, ChangeTeam(t)
      PROVE  RulesTypeOK'
  BY <1>a, <1>c, <1>8, RulesAssumption DEF ChangeTeam
<1>9. ASSUME NEW f \in Defs, ChangeDefinition(f)
      PROVE  RulesTypeOK'
  BY <1>a, <1>c, <1>9 DEF ChangeDefinition
<1>10. CASE Midnight
  <2>1. today' \in 0..LastDay
    BY <1>a, <1>10, RulesAssumption DEF Midnight
  <2> QED
    BY <1>a, <1>c, <1>10, <2>1 DEF Midnight
<1>11. CASE UNCHANGED ruleVars
  BY <1>a, <1>c, <1>11 DEF ruleVars
<1> QED
  BY <1>1, <1>2, <1>3, <1>4, <1>5, <1>6, <1>7, <1>8, <1>9, <1>10, <1>11 DEF RulesNext

\* Every plan that is saved has a day for each day of its cycle, and every day
\* of the schedule is planned, whatever is edited, deleted and published.
THEOREM RulesTypeCorrect == RulesSpec => []RulesTypeOK
<1>1. RulesInit => RulesTypeOK
  BY InitRulesTypeOK
<1>2. RulesTypeOK /\ [RulesNext]_ruleVars => RulesTypeOK'
  BY StepRulesTypeOK
<1> QED
  BY <1>1, <1>2, PTL DEF RulesSpec

-----------------------------------------------------------------------------
(***************************************************************************)
(* The rule that is shown and its latest version.                          *)
(***************************************************************************)
LEMMA StepRuleMatches ==
    RulesTypeOK /\ RuleMatchesLatestVersion /\ [RulesNext]_ruleVars => RuleMatchesLatestVersion'
<1> SUFFICES ASSUME RulesTypeOK, RuleMatchesLatestVersion, [RulesNext]_ruleVars
             PROVE  RuleMatchesLatestVersion'
  OBVIOUS
<1> DEFINE Match(rule) == rule.versions # <<>> =>
              /\ rule.start = rule.versions[Len(rule.versions)].start
              /\ rule.cycle = rule.versions[Len(rule.versions)].cycle
<1>a. rules \in Seq(RuleRecord) /\ \A r \in DOMAIN rules : Match(rules[r])
  BY DEF RulesTypeOK, RuleMatchesLatestVersion, Latest
<1>b. ASSUME \A r \in DOMAIN rules' : Match(rules'[r]) PROVE RuleMatchesLatestVersion'
  BY <1>b DEF RuleMatchesLatestVersion, Latest
<1>1. ASSUME NEW e \in Edits, Keep \notin {e.start, e.cycle}, e.plan # Keep,
             CreateRule(e.start, e.cycle, e.plan)
      PROVE  RuleMatchesLatestVersion'
  <2> DEFINE v == Draft(e.start, e.cycle, e.plan, enabledDefs)
             new == [status |-> "draft", start |-> e.start, cycle |-> e.cycle,
                     versions |-> IF e.plan = <<>> THEN <<>> ELSE <<v>>]
  <2>1. Match(new)
    BY DEF Draft
  <2>2. rules' = Append(rules, new)
    BY <1>1 DEF CreateRule
  <2> HIDE DEF new, Match
  <2>3. \A r \in DOMAIN rules' : rules'[r] = IF r \in DOMAIN rules THEN rules[r] ELSE new
    BY <1>a, <2>2
  <2>4. \A r \in DOMAIN rules' : Match(rules'[r])
    BY <1>a, <2>1, <2>3
  <2> QED
    BY <1>b, <2>4
<1>2. ASSUME NEW r \in DOMAIN rules, NEW e \in Edits, SaveParameters(r, e.start, e.cycle, e.plan)
      PROVE  RuleMatchesLatestVersion'
  <2> DEFINE new == [rules[r] EXCEPT !.start = Sent(e.start, @), !.cycle = Sent(e.cycle, @)]
  <2>1. rules[r] \in RuleRecord /\ Match(rules[r])
    BY <1>a
  <2>2. rules[r].versions = <<>> \/ (e.start = Keep /\ e.cycle = Keep)
    BY <1>2 DEF SaveParameters, SavesVersion
  <2>3. /\ new.versions = rules[r].versions
        /\ new.start = Sent(e.start, rules[r].start)
        /\ new.cycle = Sent(e.cycle, rules[r].cycle)
    BY <2>1 DEF RuleRecord
  <2>4. rules' = [rules EXCEPT ![r] = new]
    BY <1>2 DEF SaveParameters
  <2> HIDE DEF new
  <2>5. Match(new)
    BY <2>1, <2>2, <2>3 DEF Sent
  <2> HIDE DEF Match
  <2>6. \A q \in DOMAIN rules' : q \in DOMAIN rules /\ rules'[q] = IF q = r THEN new ELSE rules[q]
    BY <1>a, <2>4
  <2> QED
    BY <1>a, <1>b, <2>5, <2>6
<1>3. ASSUME NEW r \in DOMAIN rules, NEW e \in Edits, SaveVersion(r, e.start, e.cycle, e.plan)
      PROVE  RuleMatchesLatestVersion'
  <2>1. PICK v \in Versions :
          rules' = [rules EXCEPT ![r] =
               [status   |-> IF @.status = "superseded" THEN "draft" ELSE @.status,
                start    |-> v.start,
                cycle    |-> v.cycle,
                versions |-> Append(@.versions, v)]]
    BY <1>3, SavedDraft
  <2> DEFINE vs == Append(rules[r].versions, v)
             new == [status   |-> IF rules[r].status = "superseded" THEN "draft" ELSE rules[r].status,
                     start    |-> v.start,
                     cycle    |-> v.cycle,
                     versions |-> vs]
  <2>2. vs[Len(vs)] = v
    BY RuleIsRecord, AppendedVersion
  <2> HIDE DEF vs
  <2>3. Match(new)
    BY <2>2
  <2>4. rules' = [rules EXCEPT ![r] = new]
    BY <2>1 DEF vs
  <2> HIDE DEF new, Match
  <2>5. \A q \in DOMAIN rules' : q \in DOMAIN rules /\ rules'[q] = IF q = r THEN new ELSE rules[q]
    BY <1>a, <2>4
  <2> QED
    BY <1>a, <1>b, <2>3, <2>5
<1>4. ASSUME NEW r \in DOMAIN rules, DeleteRule(r)
      PROVE  RuleMatchesLatestVersion'
  <2>1. Match(Tombstone)
    BY DEF Tombstone
  <2> HIDE DEF Match
  <2>2. \A q \in DOMAIN rules' : q \in DOMAIN rules /\ rules'[q] = IF q = r THEN Tombstone ELSE rules[q]
    BY <1>a, <1>4 DEF DeleteRule
  <2> QED
    BY <1>a, <1>b, <2>1, <2>2
<1>5. ASSUME NEW r \in DOMAIN rules, PublishRule(r)
      PROVE  RuleMatchesLatestVersion'
  <2>1. ASSUME NEW q \in DOMAIN rules', rules'[q].versions # <<>>
        PROVE  /\ rules'[q].start = rules'[q].versions[Len(rules'[q].versions)].start
               /\ rules'[q].cycle = rules'[q].versions[Len(rules'[q].versions)].cycle
    <3>1. /\ q \in DOMAIN rules
          /\ Len(rules'[q].versions) = Len(rules[q].versions)
          /\ DOMAIN rules'[q].versions = DOMAIN rules[q].versions
          /\ rules'[q].start = rules[q].start /\ rules'[q].cycle = rules[q].cycle
      BY <1>5, PublishedRules
    <3>2. rules'[q] \in RuleRecord
      BY <1>5, PublishedRules
    <3>3. rules'[q].versions \in Seq(Versions)
      BY <3>2 DEF RuleRecord
    <3>4. rules[q].versions # <<>>
      BY <2>1, <3>1, <3>3, RuleIsRecord
    <3>5. Len(rules[q].versions) \in DOMAIN rules[q].versions
      BY <3>1, <3>4, LatestIsVersion
    <3>6. /\ rules'[q].versions[Len(rules[q].versions)].start = Latest(q).start
          /\ rules'[q].versions[Len(rules[q].versions)].cycle = Latest(q).cycle
      BY <1>5, <3>1, <3>5, PublishedRules DEF Latest
    <3>7. rules[q].start = Latest(q).start /\ rules[q].cycle = Latest(q).cycle
      BY <3>1, <3>4 DEF RuleMatchesLatestVersion
    <3> QED
      BY <3>1, <3>6, <3>7
  <2> QED
    BY <2>1 DEF RuleMatchesLatestVersion, Latest
<1>6. CASE UNCHANGED rules
  BY <1>a, <1>b, <1>6
<1>7. ASSUME NEW through \in Throughs, GenerateDays(through)
      PROVE  UNCHANGED rules
  BY <1>7 DEF GenerateDays
<1>8. ASSUME NEW d \in DOMAIN days, EditDay(d) \/ FileDocument(d)
      PROVE  UNCHANGED rules
  BY <1>8 DEF EditDay, FileDocument
<1>9. ASSUME \/ \E t \in Leavers : ChangeTeam(t)
             \/ \E f \in Defs : ChangeDefinition(f)
             \/ Midnight
             \/ UNCHANGED ruleVars
      PROVE  UNCHANGED rules
  BY <1>9 DEF ChangeTeam, ChangeDefinition, Midnight, ruleVars
<1> QED
  BY <1>1, <1>2, <1>3, <1>4, <1>5, <1>6, <1>7, <1>8, <1>9 DEF RulesNext

\* Whatever single fields update_shift_rule is sent, the start date and cycle
\* that the screen shows are those publish_shift_rule will take.
THEOREM RuleAlwaysMatches == RulesSpec => []RuleMatchesLatestVersion
<1>1. RulesInit => RuleMatchesLatestVersion
  BY DEF RulesInit, RuleMatchesLatestVersion
<1>2. RulesTypeOK /\ RuleMatchesLatestVersion /\ [RulesNext]_ruleVars => RuleMatchesLatestVersion'
  BY StepRuleMatches
<1> QED
  BY <1>1, <1>2, RulesTypeCorrect, PTL DEF RulesSpec

-----------------------------------------------------------------------------
(***************************************************************************)
(* The schedule, the published rule and the rotation.                      *)
(***************************************************************************)
\* The requests of the editor, which do not touch the schedule.
Saving ==
    \/ \E e \in Edits : /\ Keep \notin {e.start, e.cycle}
                        /\ e.plan # Keep
                        /\ CreateRule(e.start, e.cycle, e.plan)
    \/ \E r \in DOMAIN rules, e \in Edits :
          SaveParameters(r, e.start, e.cycle, e.plan) \/ SaveVersion(r, e.start, e.cycle, e.plan)
    \/ \E r \in DOMAIN rules : DeleteRule(r)

\* What drives the schedule stays in place while rules are edited.
KeepsDriver ==
    /\ UNCHANGED <<today, schedule, days>>
    /\ \A q \in DOMAIN rules' : rules'[q].status = "published" =>
          q \in DOMAIN rules /\ rules[q].status = "published"
    /\ schedule # NoSchedule =>
          /\ rules'[schedule.rule].status = "published"
          /\ PublishedVersion(schedule.rule, schedule.version)'
          /\ rules'[schedule.rule].versions[schedule.version]
               = rules[schedule.rule].versions[schedule.version]

LEMMA SavingKeepsDriver ==
    ASSUME RulesTypeOK, ScheduleFollowsPublishedRule, Saving
    PROVE  KeepsDriver
<1>a. rules \in Seq(RuleRecord)
  BY DEF RulesTypeOK
<1>b. schedule # NoSchedule =>
        /\ schedule.rule \in DOMAIN rules /\ rules[schedule.rule].status = "published"
        /\ PublishedVersion(schedule.rule, schedule.version)
  BY DEF RulesTypeOK, ScheduleFollowsPublishedRule
\* What is left to show of a step that keeps the status and versions of the rule
\* in the schedule.
<1>c. ASSUME UNCHANGED <<today, schedule, days>>,
             \A q \in DOMAIN rules' : rules'[q].status = "published" =>
                q \in DOMAIN rules /\ rules[q].status = "published",
             schedule # NoSchedule =>
                /\ rules'[schedule.rule].status = rules[schedule.rule].status
                /\ rules'[schedule.rule].versions = rules[schedule.rule].versions
      PROVE  KeepsDriver
  BY <1>b, <1>c DEF KeepsDriver, PublishedVersion
<1>1. ASSUME NEW e \in Edits, CreateRule(e.start, e.cycle, e.plan)
      PROVE  KeepsDriver
  <2>1. PICK new : rules' = Append(rules, new) /\ new.status = "draft"
    BY <1>1 DEF CreateRule
  <2>2. \A r \in DOMAIN rules' : rules'[r] = IF r \in DOMAIN rules THEN rules[r] ELSE new
    BY <1>a, <2>1
  <2>3. DOMAIN rules \subseteq DOMAIN rules'
    BY <1>a, <2>1
  <2> QED
    BY <1>b, <1>c, <1>1, <2>1, <2>2, <2>3 DEF CreateRule
<1>2. ASSUME NEW r \in DOMAIN rules, NEW e \in Edits, SaveParameters(r, e.start, e.cycle, e.plan)
      PROVE  KeepsDriver
  <2> DEFINE new == [rules[r] EXCEPT !.start = Sent(e.start, @), !.cycle = Sent(e.cycle, @)]
  <2>1. new.versions = rules[r].versions /\ new.status = rules[r].status
    BY <1>a DEF RuleRecord
  <2>2. rules' = [rules EXCEPT ![r] = new]
    BY <1>2 DEF SaveParameters
  <2> HIDE DEF new
  <2>3. DOMAIN rules' = DOMAIN rules
    BY <2>2
  <2>4. \A q \in DOMAIN rules : rules'[q] = IF q = r THEN new ELSE rules[q]
    BY <1>a, <2>2
  <2> QED
    BY <1>b, <1>c, <1>2, <2>1, <2>3, <2>4 DEF SaveParameters
<1>3. ASSUME NEW r \in DOMAIN rules, NEW e \in Edits, SaveVersion(r, e.start, e.cycle, e.plan)
      PROVE  KeepsDriver
  <2>1. PICK v \in Versions :
          /\ v.status = "draft"
          /\ rules' = [rules EXCEPT ![r] =
               [status   |-> IF @.status = "superseded" THEN "draft" ELSE @.status,
                start    |-> v.start,
                cycle    |-> v.cycle,
                versions |-> Append(@.versions, v)]]
    BY <1>3, SavedDraft
  <2> DEFINE vs == Append(rules[r].versions, v)
             new == [status   |-> IF rules[r].status = "superseded" THEN "draft" ELSE rules[r].status,
                     start    |-> v.start,
                     cycle    |-> v.cycle,
                     versions |-> vs]
  <2>2. rules' = [rules EXCEPT ![r] = new]
    BY <2>1
  <2>3. /\ DOMAIN vs = DOMAIN rules[r].versions \cup {Len(rules[r].versions) + 1}
        /\ Len(vs) = Len(rules[r].versions) + 1
        /\ \A k \in DOMAIN rules[r].versions : vs[k] = rules[r].versions[k]
        /\ vs[Len(rules[r].versions) + 1].status = "draft"
    BY <2>1, RuleIsRecord, AppendedVersion
  <2> HIDE DEF vs
  <2>4. new.status = "published" <=> rules[r].status = "published"
    OBVIOUS
  <2>5. new.versions = vs
    OBVIOUS
  <2> HIDE DEF new
  <2>6. /\ DOMAIN rules' = DOMAIN rules
        /\ \A q \in DOMAIN rules : rules'[q] = IF q = r THEN new ELSE rules[q]
    BY <1>a, <2>2
  <2>7. UNCHANGED <<today, schedule, days>>
    BY <1>3 DEF SaveVersion
  <2>8. CASE schedule = NoSchedule \/ schedule.rule # r
    BY <1>b, <1>c, <2>4, <2>6, <2>7, <2>8
  <2>9. CASE schedule # NoSchedule /\ schedule.rule = r
    <3> DEFINE k == schedule.version
    <3>1. rules'[r] = new /\ rules'[r].versions = vs
      BY <2>5, <2>6
    <3>2. /\ k \in DOMAIN rules[r].versions /\ rules[r].versions[k].status = "published"
          /\ \A j \in (k + 1)..Len(rules[r].versions) : rules[r].versions[j].status # "published"
      BY <1>b, <2>9 DEF PublishedVersion
    <3>3. k \in DOMAIN vs /\ vs[k] = rules[r].versions[k]
      BY <2>3, <3>2
    <3>4. ASSUME NEW j \in (k + 1)..Len(vs) PROVE vs[j].status # "published"
      <4>1. rules[r].versions \in Seq(Versions)
        BY RuleIsRecord
      <4>2. CASE j = Len(rules[r].versions) + 1
        BY <2>3, <4>2
      <4>3. CASE j # Len(rules[r].versions) + 1
        <5>1. j \in (k + 1)..Len(rules[r].versions) /\ j \in DOMAIN rules[r].versions
          BY <2>3, <3>2, <4>1, <4>3
        <5> QED
          BY <2>3, <3>2, <5>1
      <4> QED
        BY <4>2, <4>3
    <3>5. PublishedVersion(r, k)'
      <4>1. schedule' = schedule
        BY <2>7
      <4> QED
        BY <3>1, <3>2, <3>3, <3>4, <4>1 DEF PublishedVersion
    <3>6. rules'[r].status = "published"
      BY <1>b, <2>4, <2>9, <3>1
    <3>7. \A q \in DOMAIN rules' : rules'[q].status = "published" =>
             q \in DOMAIN rules /\ rules[q].status = "published"
      BY <2>4, <2>6
    <3> QED
      BY <2>7, <2>9, <3>1, <3>3, <3>5, <3>6, <3>7 DEF KeepsDriver
  <2> QED
    BY <2>8, <2>9
<1>4. ASSUME NEW r \in DOMAIN rules, DeleteRule(r)
      PROVE  KeepsDriver
  <2>1. /\ DOMAIN rules' = DOMAIN rules
        /\ \A q \in DOMAIN rules : rules'[q] = IF q = r THEN Tombstone ELSE rules[q]
    BY <1>a, <1>4 DEF DeleteRule
  <2>2. schedule = NoSchedule \/ schedule.rule # r
    BY <1>4 DEF DeleteRule, Referenced
  <2>3. Tombstone.status # "published"
    BY DEF Tombstone
  <2> QED
    BY <1>b, <1>c, <1>4, <2>1, <2>2, <2>3 DEF DeleteRule
<1> QED
  BY <1>1, <1>2, <1>3, <1>4 DEF Saving

\* A step that writes the days of version k of rule r.
Writing(r, k, through) ==
    /\ r \in DOMAIN rules /\ k \in DOMAIN rules[r].versions /\ through \in Nat
    /\ Generable(rules[r].versions[k])
    /\ Materialize(r, k, through)
    /\ today' = today

\* The steps that matter to the schedule: a rule takes over, the coverage is
\* extended, or nothing of it moves but what is done to a day.
LEMMA StepsOfSchedule ==
    ASSUME RulesTypeOK, [RulesNext]_ruleVars
    PROVE  \/ Saving
           \/ \E r \in DOMAIN rules : PublishRule(r) /\ Writing(r, Len(rules[r].versions), 0)
           \/ /\ UNCHANGED rules
              /\ schedule # NoSchedule
              /\ \E k \in Nat, through \in Nat :
                   PublishedVersion(schedule.rule, k) /\ Writing(schedule.rule, k, through)
           \/ /\ UNCHANGED <<rules, schedule>>
              /\ \/ today' = today
                    /\ \E d \in DOMAIN days, u \in {"edited", "referenced"} :
                         days[d].use # "referenced" /\ days' = [days EXCEPT ![d].use = u]
                 \/ UNCHANGED days
<1>1. ASSUME NEW r \in DOMAIN rules, PublishRule(r)
      PROVE  Writing(r, Len(rules[r].versions), 0)
  BY <1>1, PublishedRules DEF PublishRule, Publishable, Latest, Writing
<1>2. ASSUME NEW through \in Throughs, GenerateDays(through)
      PROVE  /\ UNCHANGED rules
             /\ schedule # NoSchedule
             /\ \E k \in Nat : PublishedVersion(schedule.rule, k) /\ Writing(schedule.rule, k, through)
  <2>1. schedule # NoSchedule /\ UNCHANGED <<rules, today>>
    BY <1>2 DEF GenerateDays
  <2>2. schedule.rule \in DOMAIN rules /\ through \in Nat
    BY <2>1, RulesAssumption DEF RulesTypeOK
  <2>3. PICK k \in DOMAIN rules[schedule.rule].versions :
          /\ PublishedVersion(schedule.rule, k)
          /\ Generable(rules[schedule.rule].versions[k])
          /\ Materialize(schedule.rule, k, through)
    BY <1>2 DEF GenerateDays
  <2>4. k \in Nat
    BY <2>2, RuleIsRecord
  <2> QED
    BY <2>1, <2>2, <2>3, <2>4 DEF Writing
<1>3. ASSUME NEW d \in DOMAIN days, EditDay(d) \/ FileDocument(d)
      PROVE  /\ UNCHANGED <<rules, schedule, today>>
             /\ \E u \in {"edited", "referenced"} :
                  days[d].use # "referenced" /\ days' = [days EXCEPT ![d].use = u]
  BY <1>3 DEF EditDay, FileDocument
<1>4. ASSUME \/ \E t \in Leavers : ChangeTeam(t)
             \/ \E f \in Defs : ChangeDefinition(f)
             \/ Midnight
             \/ UNCHANGED ruleVars
      PROVE  UNCHANGED <<rules, schedule, days>>
  BY <1>4 DEF ChangeTeam, ChangeDefinition, Midnight, ruleVars
<1>5. ASSUME NEW through \in Throughs PROVE through \in Nat
  BY RulesAssumption
<1> QED
  BY <1>1, <1>2, <1>3, <1>4, <1>5 DEF RulesNext, Saving

LEMMA StepScheduleFollows ==
    RulesTypeOK /\ ScheduleFollowsPublishedRule /\ [RulesNext]_ruleVars
        => ScheduleFollowsPublishedRule'
<1> SUFFICES ASSUME RulesTypeOK, ScheduleFollowsPublishedRule, [RulesNext]_ruleVars
             PROVE  ScheduleFollowsPublishedRule'
  OBVIOUS
<1>1. CASE Saving
  <2>1. KeepsDriver
    BY <1>1, SavingKeepsDriver
  <2>2. ASSUME NEW q \in DOMAIN rules', rules'[q].status = "published"
        PROVE  schedule' # NoSchedule /\ schedule'.rule = q
    BY <2>1, <2>2 DEF KeepsDriver, ScheduleFollowsPublishedRule
  <2>3. schedule' # NoSchedule => /\ rules'[schedule'.rule].status = "published"
                                  /\ PublishedVersion(schedule.rule, schedule.version)'
    BY <2>1 DEF KeepsDriver
  <2> QED
    BY <2>2, <2>3 DEF ScheduleFollowsPublishedRule
<1>2. ASSUME NEW r \in DOMAIN rules, PublishRule(r), Writing(r, Len(rules[r].versions), 0)
      PROVE  ScheduleFollowsPublishedRule'
  <2> DEFINE n == Len(rules[r].versions)
  <2>1. /\ n \in DOMAIN rules'[r].versions /\ Len(rules'[r].versions) = n
        /\ rules'[r].versions[n].status = "published"
        /\ DOMAIN rules' = DOMAIN rules
        /\ \A q \in DOMAIN rules : rules'[q].status = "published" <=> q = r
    BY <1>2, PublishedRules
  <2>2. n \in Nat
    BY RuleIsRecord
  <2> HIDE DEF n
  <2>3. schedule' # NoSchedule /\ schedule'.rule = r /\ schedule'.version = n
    BY <1>2, MaterializedDays DEF Writing, n
  <2>4. PublishedVersion(schedule.rule, schedule.version)'
    BY <2>1, <2>2, <2>3 DEF PublishedVersion
  <2> QED
    BY <2>1, <2>3, <2>4 DEF ScheduleFollowsPublishedRule
<1>3. ASSUME UNCHANGED rules, schedule # NoSchedule, NEW k \in Nat, NEW through \in Nat,
             PublishedVersion(schedule.rule, k), Writing(schedule.rule, k, through)
      PROVE  ScheduleFollowsPublishedRule'
  <2>1. schedule' # NoSchedule /\ schedule'.rule = schedule.rule /\ schedule'.version = k
    BY <1>3, MaterializedDays DEF Writing
  <2>2. PublishedVersion(schedule.rule, schedule.version)'
    BY <1>3, <2>1 DEF PublishedVersion
  <2> QED
    BY <1>3, <2>1, <2>2 DEF ScheduleFollowsPublishedRule
<1>4. CASE UNCHANGED <<rules, schedule>>
  BY <1>4 DEF ScheduleFollowsPublishedRule, PublishedVersion
<1> QED
  BY <1>1, <1>2, <1>3, <1>4, StepsOfSchedule

\* A schedule is always driven by the one published rule and its latest published
\* version, however rules are published, superseded, edited and deleted.
THEOREM ScheduleAlwaysFollows == RulesSpec => []ScheduleFollowsPublishedRule
<1>1. RulesInit => ScheduleFollowsPublishedRule
  BY DEF RulesInit, ScheduleFollowsPublishedRule
<1>2. RulesTypeOK /\ ScheduleFollowsPublishedRule /\ [RulesNext]_ruleVars
        => ScheduleFollowsPublishedRule'
  BY StepScheduleFollows
<1> QED
  BY <1>1, <1>2, RulesTypeCorrect, PTL DEF RulesSpec

-----------------------------------------------------------------------------
\* The days ds repeat the cycle of v from its start date on, without a gap.
Rotates(v, ds) ==
    /\ v.start \in DOMAIN ds
    /\ \A d \in DOMAIN ds : d >= v.start => /\ v.start..d \subseteq DOMAIN ds
                                            /\ ds[d].team = TeamOn(v, d)

LEMMA RotationMeansCovered ==
    ASSUME NEW v, v.start \in Nat, NEW ds, DOMAIN ds \subseteq Nat
    PROVE  Rotates(v, ds) <=>
             LET covered == { d \in DOMAIN ds : d >= v.start }
             IN  /\ v.start \in covered
                 /\ \A d \in covered : v.start..d \subseteq covered /\ ds[d].team = TeamOn(v, d)
BY DEF Rotates

\* The version the schedule is driven by.
LEMMA DriverIsVersion ==
    ASSUME RulesTypeOK, ScheduleFollowsPublishedRule, schedule # NoSchedule
    PROVE  /\ schedule.rule \in DOMAIN rules
           /\ schedule.version \in DOMAIN rules[schedule.rule].versions
           /\ rules[schedule.rule].versions[schedule.version] \in Versions
           /\ rules[schedule.rule].versions[schedule.version].start \in Nat
<1>1. schedule.rule \in DOMAIN rules
  BY DEF RulesTypeOK
<1>2. schedule.version \in DOMAIN rules[schedule.rule].versions
  BY DEF ScheduleFollowsPublishedRule, PublishedVersion
<1>3. rules[schedule.rule].versions[schedule.version] \in Versions
  BY <1>1, <1>2, RuleIsRecord
<1> QED
  BY <1>1, <1>2, <1>3 DEF Versions

LEMMA WrittenDaysRotate ==
    ASSUME RulesTypeOK, NEW r, NEW k, NEW through, Writing(r, k, through),
           SameVersion(r, k) => Rotates(rules[r].versions[k], days)
    PROVE  Rotates(rules[r].versions[k], days')
<1> DEFINE v == rules[r].versions[k]
           end == GenerationEnd(v, through)
<1>1. r \in DOMAIN rules /\ k \in DOMAIN rules[r].versions /\ v \in Versions
  BY RuleIsRecord DEF Writing
<1>2. /\ DOMAIN days' = KeptDays(r, k) \cup v.start..end
      /\ KeptDays(r, k) \subseteq DOMAIN days
      /\ \A d \in DOMAIN days' :
           days'[d] = IF d \in KeptDays(r, k) THEN days[d]
                      ELSE [team |-> TeamOn(v, d), use |-> "planned"]
      /\ DOMAIN days' \subseteq Nat
  BY <1>1, MaterializedDays DEF Writing
<1>3. v.start \in Nat /\ end \in Nat /\ end >= v.start
  <2>1. through \in Nat /\ Horizon \in Nat
    BY RulesAssumption DEF Writing
  <2>2. v.start \in Nat /\ end \in Nat /\ end >= v.start + Horizon
    BY <1>1, <2>1, RangeIsNumbers
  <2> HIDE DEF v, end
  <2> QED
    BY <2>1, <2>2
<1>4. \A d \in KeptDays(r, k) : d >= v.start =>
         /\ SameVersion(r, k)
         /\ v.start..d \subseteq KeptDays(r, k)
         /\ days[d].team = TeamOn(v, d)
  BY <1>2, <1>3 DEF KeptDays, Rotates, RulesTypeOK
<1> HIDE DEF v, end
<1>5. ASSUME NEW d \in DOMAIN days', d >= v.start
      PROVE  v.start..d \subseteq DOMAIN days' /\ days'[d].team = TeamOn(v, d)
  <2>1. CASE d \in KeptDays(r, k)
    BY <1>2, <1>4, <1>5, <2>1
  <2>2. CASE d \notin KeptDays(r, k)
    <3>1. d \in v.start..end
      BY <1>2, <1>5, <2>2
    <3>2. v.start..d \subseteq v.start..end
      BY <1>3, <3>1
    <3>3. days'[d] = [team |-> TeamOn(v, d), use |-> "planned"]
      BY <1>2, <1>5, <2>2
    <3> QED
      BY <1>2, <3>2, <3>3
  <2> QED
    BY <2>1, <2>2
<1> QED
  BY <1>2, <1>3, <1>5 DEF Rotates, v

LEMMA StepDaysFollow ==
    /\ RulesTypeOK /\ ScheduleFollowsPublishedRule /\ DaysFollowRotation
    /\ [RulesNext]_ruleVars
    /\ RulesTypeOK' /\ ScheduleFollowsPublishedRule'
    => DaysFollowRotation'
<1> SUFFICES ASSUME RulesTypeOK, ScheduleFollowsPublishedRule, DaysFollowRotation,
                    [RulesNext]_ruleVars, RulesTypeOK', ScheduleFollowsPublishedRule'
             PROVE  DaysFollowRotation'
  OBVIOUS
<1> DEFINE v == rules[schedule.rule].versions[schedule.version]
           w == rules'[schedule'.rule].versions[schedule'.version]
<1>a. schedule # NoSchedule => Rotates(v, days)
  <2>1. DOMAIN days \subseteq Nat
    BY DEF RulesTypeOK
  <2> QED
    BY <2>1, DriverIsVersion, RotationMeansCovered DEF DaysFollowRotation
<1>b. ASSUME schedule' # NoSchedule => w.start \in Nat /\ Rotates(w, days')
      PROVE  DaysFollowRotation'
  <2>1. DOMAIN days' \subseteq Nat
    BY DEF RulesTypeOK
  <2> HIDE DEF w
  <2>2. schedule' # NoSchedule =>
          LET covered == { d \in DOMAIN days' : d >= w.start }
          IN  /\ w.start \in covered
              /\ \A d \in covered : w.start..d \subseteq covered /\ days'[d].team = TeamOn(w, d)
    BY <1>b, <2>1, RotationMeansCovered
  <2> QED
    BY <2>2 DEF DaysFollowRotation, w, TeamOn
<1>c. schedule # NoSchedule => v.start \in Nat
  BY DriverIsVersion
<1>1. CASE Saving
  <2>1. KeepsDriver
    BY <1>1, SavingKeepsDriver
  <2>2. days' = days /\ schedule' = schedule /\ (schedule # NoSchedule => w = v)
    BY <2>1 DEF KeepsDriver
  <2> HIDE DEF v, w
  <2> QED
    BY <1>a, <1>b, <1>c, <2>2
<1>2. ASSUME NEW r \in DOMAIN rules, PublishRule(r), Writing(r, Len(rules[r].versions), 0)
      PROVE  DaysFollowRotation'
  <2> DEFINE n == Len(rules[r].versions)
             u == rules[r].versions[n]
  <2>1. n \in DOMAIN rules[r].versions /\ u \in Versions
    BY <1>2, RuleIsRecord DEF Writing
  <2>2. schedule'.rule = r /\ schedule'.version = n
    BY <1>2, <2>1, MaterializedDays DEF Writing
  <2>3. w.start = u.start /\ w.cycle = u.cycle /\ w.plan = u.plan
    BY <1>2, <2>1, <2>2, PublishedRules
  <2>4. SameVersion(r, n) => Rotates(u, days)
    BY <1>a DEF SameVersion
  <2>5. Rotates(u, days')
    BY <1>2, <2>4, WrittenDaysRotate
  <2>6. u.start \in Nat
    BY <2>1 DEF Versions
  <2> HIDE DEF u, w
  <2>7. Rotates(w, days')
    BY <2>3, <2>5 DEF Rotates, TeamOn
  <2> QED
    BY <1>b, <2>3, <2>6, <2>7
<1>3. ASSUME UNCHANGED rules, schedule # NoSchedule, NEW k \in Nat, NEW through \in Nat,
             PublishedVersion(schedule.rule, k), Writing(schedule.rule, k, through)
      PROVE  DaysFollowRotation'
  <2> DEFINE u == rules[schedule.rule].versions[k]
  <2>1. schedule.rule \in DOMAIN rules /\ k \in DOMAIN rules[schedule.rule].versions
    BY <1>3 DEF Writing
  <2>2. schedule'.rule = schedule.rule /\ schedule'.version = k
    BY <1>3, <2>1, MaterializedDays DEF Writing
  <2>3. w = u
    BY <1>3, <2>2
  <2>4. SameVersion(schedule.rule, k) => Rotates(u, days)
    BY <1>a DEF SameVersion
  <2>5. Rotates(u, days')
    BY <1>3, <2>4, WrittenDaysRotate
  <2>6. u.start \in Nat
    <3>1. u \in Versions
      BY <2>1, RuleIsRecord
    <3> QED
      BY <3>1 DEF Versions
  <2> HIDE DEF u, w
  <2> QED
    BY <1>b, <2>3, <2>5, <2>6
<1>4. CASE UNCHANGED <<rules, schedule, days>>
  <2>1. w = v /\ days' = days /\ schedule' = schedule
    BY <1>4
  <2> HIDE DEF v, w
  <2> QED
    BY <1>a, <1>b, <1>c, <2>1
<1>5. ASSUME UNCHANGED <<rules, schedule>>, NEW d \in DOMAIN days,
             NEW x \in {"edited", "referenced"}, days' = [days EXCEPT ![d].use = x]
      PROVE  DaysFollowRotation'
  <2>1. w = v /\ schedule' = schedule
    BY <1>5
  <2>2. DOMAIN days' = DOMAIN days
    BY <1>5
  <2>3. \A c \in DOMAIN days : days'[c].team = days[c].team
    BY <1>5 DEF RulesTypeOK, DayRecord
  <2> HIDE DEF v, w
  <2>4. schedule # NoSchedule => Rotates(v, days')
    BY <1>a, <2>2, <2>3 DEF Rotates
  <2> QED
    BY <1>b, <1>c, <2>1, <2>4
<1> QED
  BY <1>1, <1>2, <1>3, <1>4, <1>5, StepsOfSchedule

\* In however many pieces generate_schedule_from_rule wrote the days, and however
\* often versions replaced each other, the rotation runs on without a gap.
THEOREM DaysAlwaysFollow == RulesSpec => []DaysFollowRotation
<1>1. RulesInit => DaysFollowRotation
  BY DEF RulesInit, DaysFollowRotation
<1>2. /\ RulesTypeOK /\ ScheduleFollowsPublishedRule /\ DaysFollowRotation
      /\ [RulesNext]_ruleVars
      /\ RulesTypeOK' /\ ScheduleFollowsPublishedRule'
      => DaysFollowRotation'
  BY StepDaysFollow
<1> QED
  BY <1>1, <1>2, RulesTypeCorrect, ScheduleAlwaysFollows, PTL DEF RulesSpec

-----------------------------------------------------------------------------
(***************************************************************************)
(* What a step may do to the days that are there.                          *)
(***************************************************************************)
\* The three action properties together.
DaysStep ==
    /\ \A d \in Used("referenced") : Survives(d)
    /\ \A d \in DOMAIN days :
         schedule' = schedule \/ d < rules'[schedule'.rule].versions[schedule'.version].start
           => Survives(d)
    /\ DOMAIN days' # DOMAIN days =>
         \A d \in (today + 1)..(today + 1 + Horizon) :
           d >= rules'[schedule'.rule].versions[schedule'.version].start => d \in DOMAIN days'

LEMMA StepOfDays ==
    RulesTypeOK /\ ScheduleFollowsPublishedRule /\ [RulesNext]_ruleVars => DaysStep
<1> SUFFICES ASSUME RulesTypeOK, ScheduleFollowsPublishedRule, [RulesNext]_ruleVars
             PROVE  DaysStep
  OBVIOUS
<1>a. \A d \in Used("referenced") : d \in DOMAIN days
  BY DEF Used
<1>b. ASSUME DOMAIN days' = DOMAIN days, \A d \in DOMAIN days : Survives(d)
      PROVE  DaysStep
  BY <1>a, <1>b DEF DaysStep
<1>c. ASSUME UNCHANGED days PROVE DaysStep
  <2>1. \A d \in DOMAIN days : Survives(d)
    BY <1>c DEF Survives
  <2> QED
    BY <1>b, <1>c, <2>1
\* A day that is kept survives; the others are those that are replaced.
<1>d. ASSUME NEW r, NEW k, NEW through, Writing(r, k, through),
             rules'[r].versions[k].start = rules[r].versions[k].start
      PROVE  DaysStep
  <2> DEFINE v == rules[r].versions[k]
             end == GenerationEnd(v, through)
  <2>1. r \in DOMAIN rules /\ k \in DOMAIN rules[r].versions /\ v \in Versions /\ through \in Nat
    BY <1>d, RuleIsRecord DEF Writing
  <2>2. /\ DOMAIN days' = KeptDays(r, k) \cup v.start..end
        /\ \A d \in DOMAIN days' :
             days'[d] = IF d \in KeptDays(r, k) THEN days[d]
                        ELSE [team |-> TeamOn(v, d), use |-> "planned"]
        /\ schedule'.rule = r /\ schedule'.version = k /\ schedule' # NoSchedule
    BY <1>d, <2>1, MaterializedDays DEF Writing
  <2>3. rules'[schedule'.rule].versions[schedule'.version].start = v.start
    BY <1>d, <2>2
  <2>4. v.start \in Nat /\ end \in Nat /\ end >= today + 1 + Horizon
    BY <2>1, RangeIsNumbers
  <2> HIDE DEF v, end
  <2>5. \A d \in KeptDays(r, k) : Survives(d)
    BY <2>2 DEF Survives
  <2>6. \A d \in Used("referenced") : d \in KeptDays(r, k)
    BY <1>d DEF Writing, Materialize, Deletable, Used
  <2>7. ASSUME NEW d \in DOMAIN days,
               schedule' = schedule \/ d < rules'[schedule'.rule].versions[schedule'.version].start
        PROVE  d \in KeptDays(r, k)
    <3>1. CASE SameVersion(r, k)
      BY <3>1 DEF KeptDays
    <3>2. CASE ~SameVersion(r, k)
      <4>1. schedule' # schedule
        BY <2>2, <3>2 DEF SameVersion
      <4>2. d < v.start
        BY <2>3, <2>7, <4>1
      <4> QED
        BY <3>2, <4>2 DEF KeptDays, v
    <3> QED
      BY <3>1, <3>2
  <2>8. ASSUME NEW d \in (today + 1)..(today + 1 + Horizon), d >= v.start
        PROVE  d \in DOMAIN days'
    <3>1. d \in v.start..end
      BY <2>4, <2>8, RulesAssumption DEF RulesTypeOK
    <3> QED
      BY <2>2, <3>1
  <2> QED
    BY <2>3, <2>5, <2>6, <2>7, <2>8 DEF DaysStep
<1>1. CASE Saving
  <2>1. UNCHANGED days
    BY <1>1, SavingKeepsDriver DEF KeepsDriver
  <2> QED
    BY <1>c, <2>1
<1>2. ASSUME NEW r \in DOMAIN rules, PublishRule(r), Writing(r, Len(rules[r].versions), 0)
      PROVE  DaysStep
  <2>1. rules'[r].versions[Len(rules[r].versions)].start = rules[r].versions[Len(rules[r].versions)].start
    BY <1>2, PublishedRules
  <2> QED
    BY <1>2, <1>d, <2>1
<1>3. ASSUME UNCHANGED rules, NEW k \in Nat, NEW through \in Nat, Writing(schedule.rule, k, through)
      PROVE  DaysStep
  <2> QED
    BY <1>3, <1>d
<1>4. ASSUME NEW d \in DOMAIN days, NEW u \in {"edited", "referenced"},
             days' = [days EXCEPT ![d].use = u]
      PROVE  DaysStep
  <2>1. DOMAIN days' = DOMAIN days
    BY <1>4
  <2>2. \A c \in DOMAIN days : Survives(c)
    BY <1>4, <2>1 DEF Survives, RulesTypeOK, DayRecord
  <2> QED
    BY <1>b, <2>1, <2>2
<1>5. CASE UNCHANGED <<rules, schedule, days>>
  BY <1>5, <1>c
<1> QED
  BY <1>1, <1>2, <1>3, <1>4, <1>5, StepsOfSchedule

\* A day that a swap or leave refers to is never dropped or replanned by a new
\* version: the foreign keys refuse the whole publication.
THEOREM ReferencedDaysAlwaysSurvive == RulesSpec => ReferencedDaysSurvive
<1>1. RulesTypeOK /\ ScheduleFollowsPublishedRule /\ [RulesNext]_ruleVars
        => [\A d \in Used("referenced") : Survives(d)]_ruleVars
  BY StepOfDays DEF DaysStep
<1> QED
  BY <1>1, RulesTypeCorrect, ScheduleAlwaysFollows, PTL DEF RulesSpec, ReferencedDaysSurvive

\* Extending the coverage changes no day that is there, and a new version none
\* before its start date.
THEOREM OnlyNewRangeReplaced == RulesSpec => OnlyTheNewRangeIsReplaced
<1>1. RulesTypeOK /\ ScheduleFollowsPublishedRule /\ [RulesNext]_ruleVars
        => [\A d \in DOMAIN days :
              schedule' = schedule \/ d < rules'[schedule'.rule].versions[schedule'.version].start
                => Survives(d)]_ruleVars
  BY StepOfDays DEF DaysStep
<1> QED
  BY <1>1, RulesTypeCorrect, ScheduleAlwaysFollows, PTL DEF RulesSpec, OnlyTheNewRangeIsReplaced

\* Whenever days were written the coming Horizon days are there.
THEOREM GenerationAlwaysCovers == RulesSpec => GenerationCoversHorizon
<1>1. RulesTypeOK /\ ScheduleFollowsPublishedRule /\ [RulesNext]_ruleVars
        => [DOMAIN days' # DOMAIN days =>
              \A d \in (today + 1)..(today + 1 + Horizon) :
                d >= rules'[schedule'.rule].versions[schedule'.version].start
                  => d \in DOMAIN days']_ruleVars
  BY StepOfDays DEF DaysStep
<1> QED
  BY <1>1, RulesTypeCorrect, ScheduleAlwaysFollows, PTL DEF RulesSpec, GenerationCoversHorizon
=============================================================================
