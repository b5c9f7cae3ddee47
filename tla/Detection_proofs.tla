-------------------------- MODULE Detection_proofs --------------------------
(***************************************************************************)
(* Proofs about detection on both sides: DetectionRules, for any rule      *)
(* files, conditions, events and number of edits, and DetectionPipeline,   *)
(* for any events, batches, windows and server time.                       *)
(*                                                                         *)
(* FollowsFile needs to know what the reloader holds, ReloadInv.  For      *)
(* OneRuleSet, EvaluationInv says that an evaluation walks the lists of    *)
(* one valid file throughout; that their first match is the rule the file  *)
(* promises rests on a sorted list of the rules of each kind, which exists *)
(* because valid rules have distinct ids.                                  *)
(*                                                                         *)
(* LevelsTimely needs the end of each level, LevelsInv: INVESTIGATION ends *)
(* with the window of the last finding that called for it, and another     *)
(* level begins only after that window.  A pipeline observes its behaviors *)
(* one after another; what a scope's policy is after them depends on which *)
(* there were and not on their order, After.  IncidentsJustified needs     *)
(* that what grounds an incident stays when more is stored, GroundsKept.   *)
(***************************************************************************)
EXTENDS DetectionRules, DetectionPipeline, FiniteSetTheorems, TLAPS

Serving == collector \in {"running", "stopping"}

\* What a reload under way knows: the data it has read is a content the file
\* had, and the present one unless a later edit or signal says otherwise.
ReloadInv ==
  /\ reloader.at \in {"signalled", "read"} => Serving
  /\ reloader.at = "read" =>
       /\ Valid(reloader.data) => reloader.data \in contents
       /\ ~hangup /\ ~edited => reloader.data = file

ContentsInv ==
  /\ Valid(file) => file \in contents
  /\ \A f \in contents : Valid(f)

\* FollowsFile is inductive only together with what the reloader holds.
RulesInv == ReloadInv /\ ContentsInv /\ FollowsFile

LEMMA InitRules == RulesInit => RulesInv
BY DEF RulesInit, RulesInv, ReloadInv, ContentsInv, FollowsFile, Serving, NotReading

LEMMA StepRules == RulesInv /\ [RulesNext]_rulesVars => RulesInv'
<1> SUFFICES ASSUME RulesInv, [RulesNext]_rulesVars PROVE RulesInv'
  OBVIOUS
<1> USE DEF RulesInv, ReloadInv, ContentsInv, FollowsFile, Serving
<1>1. CASE Start
  BY <1>1 DEF Start
<1>2. CASE Hangup
  BY <1>2 DEF Hangup
<1>3. CASE Cancel
  BY <1>3 DEF Cancel
<1>4. ASSUME NEW f \in Files, Edit(f) PROVE RulesInv'
  BY <1>4 DEF Edit
<1>5. CASE TakeSignal
  BY <1>5 DEF TakeSignal
<1>6. CASE ReadFile
  <2>1. CASE file = Missing
    <3>1. ~ Valid(file)
      BY <2>1 DEF Valid
    <3> QED
      BY <1>6, <2>1, <3>1 DEF ReadFile, NotReading
  <2>2. CASE file # Missing
    BY <1>6, <2>2 DEF ReadFile
  <2> QED
    BY <2>1, <2>2
<1>7. CASE Reload
  BY <1>7 DEF Reload, Publish, NotReading
<1>8. CASE StopReloader
  BY <1>8 DEF StopReloader
<1>9. CASE Router
  BY <1>9 DEF Router, BeginEvaluate, CheckBlacklist, CheckWhitelist, Decide
<1>10. CASE UNCHANGED rulesVars
  BY <1>10 DEF rulesVars
<1> QED
  BY <1>1, <1>2, <1>3, <1>4, <1>5, <1>6, <1>7, <1>8, <1>9, <1>10 DEF RulesNext, Reloader

\* The rules in force are those of a complete valid file, and those of the
\* present one once the signals sent after its last edit have been served.
THEOREM RulesFollowFile == RulesSpec => []FollowsFile
<1>1. RulesSpec => []RulesInv
  BY InitRules, StepRules, PTL DEF RulesSpec
<1> QED
  BY <1>1, PTL DEF RulesInv

-----------------------------------------------------------------------------
(***************************************************************************)
(* Sorting the rules.                                                      *)
(***************************************************************************)

\* Facts on numbers; this instance folds nothing.
Numbers == INSTANCE FoldFacts
  WITH op <- LAMBDA p, x, y : y, f <- LAMBDA q, i : i, choose <- LAMBDA s : s

\* Rules that Precedes can sort.
Distinct(S) ==
  /\ \A r \in S : r.id \in Nat /\ r.priority \in Int
  /\ \A r, q \in S : r.id = q.id => r = q

\* One of finitely many such rules comes last,
LEMMA LastOf ==
  ASSUME NEW S, IsFiniteSet(S), S # {}, Distinct(S)
  PROVE  \E r \in S : \A q \in S \ {r} : Precedes(q, r)
<1> DEFINE HasLast(T) == \E r \in T : \A q \in T \ {r} : Precedes(q, r)
           N == {n \in Nat : \A T \in SUBSET S : T # {} /\ Cardinality(T) <= n => HasLast(T)}
<1>1. 0 \in N
  <2>1. ASSUME NEW T \in SUBSET S, Cardinality(T) <= 0 PROVE T = {}
    BY <2>1, FS_EmptySet, FS_Subset, FS_CardinalityType
  <2> QED
    BY <2>1
<1>2. ASSUME NEW n \in Nat, n \in N PROVE n + 1 \in N
  <2> SUFFICES ASSUME NEW T \in SUBSET S, T # {}, Cardinality(T) <= n + 1 PROVE HasLast(T)
    OBVIOUS
  <2>1. PICK x : x \in T
    OBVIOUS
  <2>2. PICK U : U = T \ {x}
    OBVIOUS
  <2>3. U \in SUBSET S /\ T = U \union {x}
    BY <2>1, <2>2
  <2>4. Cardinality(U) <= n
    <3>1. IsFiniteSet(T) /\ Cardinality(T) \in Nat
      BY FS_Subset, FS_CardinalityType
    <3>2. Cardinality(U) = Cardinality(T) - 1
      BY <2>1, <2>2, <3>1, FS_RemoveElement
    <3> QED
      BY <3>1, <3>2
  <2>5. CASE U = {}
    BY <2>1, <2>3, <2>5
  <2>6. CASE U # {}
    <3>1. PICK r \in U : \A q \in U \ {r} : Precedes(q, r)
      BY <1>2, <2>3, <2>4, <2>6
    <3>2. /\ x.id \in Nat /\ x.priority \in Int /\ r.id \in Nat /\ r.priority \in Int
          /\ x.id = r.id => x = r
          /\ \A q \in U : q.id \in Nat /\ q.priority \in Int
      BY <2>3, <3>1 DEF Distinct
    <3>3. CASE Precedes(x, r)
      <4>1. r \in T /\ \A q \in T \ {r} : Precedes(q, r)
        BY <2>3, <3>1, <3>3
      <4> QED
        BY <4>1
    <3>4. CASE ~Precedes(x, r)
      <4>1. x # r
        BY <2>2, <3>1
      <4>2. Precedes(r, x)
        BY <3>2, <3>4, <4>1 DEF Precedes
      <4>3. ASSUME NEW q \in U, q # r PROVE Precedes(q, x)
        <5>1. Precedes(q, r) /\ q.id \in Nat /\ q.priority \in Int
          BY <3>1, <3>2, <4>3
        <5> QED
          BY <3>2, <4>2, <5>1 DEF Precedes
      <4>4. x \in T /\ \A q \in T \ {x} : Precedes(q, x)
        BY <2>3, <4>2, <4>3
      <4> QED
        BY <4>4
    <3> QED
      BY <3>3, <3>4
  <2> QED
    BY <2>5, <2>6
<1>3. Cardinality(S) \in Nat
  BY FS_CardinalityType
<1>4. Cardinality(S) \in N
  <2> HIDE DEF N
  <2> QED
    BY <1>1, <1>2, <1>3, Numbers!Induction
<1> QED
  BY <1>3, <1>4

\* A sorted list of the rules of S.
Listing(list, S) ==
  ToSet(list) = S /\ \A i, j \in DOMAIN list : i < j => Precedes(list[i], list[j])

\* and so they can be listed, in order.
LEMMA ListingExists ==
  ASSUME NEW S, IsFiniteSet(S), Distinct(S)
  PROVE  \E list \in [1..Cardinality(S) -> S] : Listing(list, S)
<1> DEFINE Listed(T) == \E list \in [1..Cardinality(T) -> T] : Listing(list, T)
           N == {n \in Nat : \A T \in SUBSET S : Cardinality(T) <= n => Listed(T)}
<1>0. ASSUME NEW T \in SUBSET S PROVE IsFiniteSet(T) /\ Cardinality(T) \in Nat /\ Distinct(T)
  BY FS_Subset, FS_CardinalityType DEF Distinct
<1>1. ASSUME NEW T, T = {} PROVE Listed(T)
  <2>1. Cardinality(T) = 0
    BY <1>1, FS_EmptySet
  <2>2. PICK list : list = [i \in 1..0 |-> i]
    OBVIOUS
  <2>3. DOMAIN list = {} /\ list \in [1..Cardinality(T) -> T]
    BY <2>1, <2>2
  <2> QED
    BY <1>1, <2>3 DEF Listing, ToSet
<1>2. 0 \in N
  <2>1. ASSUME NEW T \in SUBSET S, Cardinality(T) <= 0 PROVE T = {}
    BY <2>1, FS_EmptySet, FS_Subset, FS_CardinalityType
  <2> HIDE DEF Listed
  <2> QED
    BY <1>1, <2>1
<1>3. ASSUME NEW n \in Nat, n \in N PROVE n + 1 \in N
  <2> SUFFICES ASSUME NEW T \in SUBSET S, T # {}, Cardinality(T) <= n + 1 PROVE Listed(T)
    BY <1>1
  <2>1. PICK r \in T : \A q \in T \ {r} : Precedes(q, r)
    BY <1>0, LastOf
  <2>2. PICK U : U = T \ {r}
    OBVIOUS
  <2>3. U \in SUBSET S /\ T = U \union {r}
    BY <2>1, <2>2
  <2>4. PICK k : k = Cardinality(U)
    OBVIOUS
  <2>5. k \in Nat /\ k <= n /\ Cardinality(T) = k + 1
    <3>1. IsFiniteSet(T) /\ Cardinality(T) \in Nat /\ k \in Nat
      BY <1>0, <2>3, <2>4
    <3>2. k = Cardinality(T) - 1
      BY <2>1, <2>2, <2>4, <3>1, FS_RemoveElement
    <3> QED
      BY <3>1, <3>2
  <2>6. PICK list \in [1..k -> U] : Listing(list, U)
    BY <1>3, <2>3, <2>4, <2>5
  <2>7. PICK all : all = [i \in 1..(k + 1) |-> IF i = k + 1 THEN r ELSE list[i]]
    OBVIOUS
  <2>8. /\ DOMAIN all = 1..(k + 1) /\ all[k + 1] = r
        /\ \A i \in 1..k : all[i] = list[i] /\ all[i] \in U
    BY <2>5, <2>6, <2>7
  <2>9. all \in [1..(k + 1) -> T]
    BY <2>3, <2>5, <2>6, <2>7
  <2>10. ToSet(all) = T
    <3>1. ToSet(list) = {list[i] : i \in 1..k} /\ ToSet(all) = {all[i] : i \in 1..(k + 1)}
      BY <2>6, <2>8 DEF ToSet
    <3>2. \A i \in 1..k : i \in 1..(k + 1)
      BY <2>5
    <3>3. \A i \in 1..(k + 1) : i = k + 1 \/ i \in 1..k
      BY <2>5
    <3>4. {list[i] : i \in 1..k} = U
      BY <2>6, <3>1 DEF Listing
    <3>5. k + 1 \in 1..(k + 1)
      BY <2>5
    <3> QED
      BY <2>3, <2>8, <3>1, <3>2, <3>3, <3>4, <3>5
  <2>11. ASSUME NEW i \in 1..(k + 1), NEW j \in 1..(k + 1), i < j
         PROVE  Precedes(all[i], all[j])
    <3>1. i \in 1..k
      BY <2>5, <2>11
    <3>2. CASE j = k + 1
      <4>1. all[i] \in T \ {r} /\ all[j] = r
        BY <2>2, <2>8, <3>1, <3>2
      <4> QED
        BY <2>1, <4>1
    <3>3. CASE j # k + 1
      <4>1. j \in 1..k
        BY <2>5, <3>3
      <4>2. Precedes(list[i], list[j])
        BY <2>6, <2>11, <3>1, <4>1 DEF Listing
      <4> QED
        BY <2>8, <3>1, <4>1, <4>2
    <3> QED
      BY <3>2, <3>3
  <2>12. Listing(all, T)
    BY <2>8, <2>10, <2>11 DEF Listing
  <2> QED
    BY <2>5, <2>9, <2>12
<1>4. Cardinality(S) \in Nat
  BY FS_CardinalityType
<1>5. Cardinality(S) \in N
  <2> HIDE DEF N
  <2> QED
    BY <1>2, <1>3, <1>4, Numbers!Induction
<1> QED
  BY <1>4, <1>5

-----------------------------------------------------------------------------
(***************************************************************************)
(* The first match is the promised rule.                                   *)
(***************************************************************************)

\* Sorted is such a list.
LEMMA SortedFacts ==
  ASSUME NEW S, IsFiniteSet(S), Distinct(S), NEW list, list = Sorted(S)
  PROVE  /\ Cardinality(S) \in Nat /\ DOMAIN list = 1..Cardinality(S)
         /\ Listing(list, S)
<1>1. Cardinality(S) \in Nat
  BY FS_CardinalityType
<1>2. \E l \in [1..Cardinality(S) -> S] : Listing(l, S)
  BY ListingExists
<1>3. list \in [1..Cardinality(S) -> S] /\ Listing(list, S)
  BY <1>2 DEF Sorted, Listing
<1> QED
  BY <1>1, <1>3

\* The condition of r holds of e.
Holds(r, e) == Result(r.condition, e) = "true"

\* The first match in a sorted list precedes the other rules that hold.
LEMMA FirstMatch ==
  ASSUME NEW S, IsFiniteSet(S), Distinct(S), NEW list, list = Sorted(S), NEW e
  PROVE  /\ Matches(list, e) = {} <=> \A r \in S : ~Holds(r, e)
         /\ Matches(list, e) # {} =>
              /\ list[Min(Matches(list, e))] \in S /\ Holds(list[Min(Matches(list, e))], e)
              /\ \A q \in S : Holds(q, e) /\ q # list[Min(Matches(list, e))] =>
                   Precedes(list[Min(Matches(list, e))], q)
<1>1. PICK n \in Nat : n = Cardinality(S) /\ DOMAIN list = 1..n /\ Listing(list, S)
  BY SortedFacts
<1>2. PICK hits : hits = Matches(list, e)
  OBVIOUS
<1>3. hits = {i \in 1..n : Holds(list[i], e)}
  BY <1>1, <1>2 DEF Matches, Holds
<1>4. S = {list[i] : i \in 1..n}
  BY <1>1 DEF Listing, ToSet
<1>5. hits = {} <=> \A r \in S : ~Holds(r, e)
  BY <1>3, <1>4
<1>6. ASSUME hits # {}
      PROVE  /\ list[Min(hits)] \in S /\ Holds(list[Min(hits)], e)
             /\ \A q \in S : Holds(q, e) /\ q # list[Min(hits)] => Precedes(list[Min(hits)], q)
  <2>1. hits \in SUBSET (0..n)
    BY <1>3
  <2>2. Min(hits) \in hits /\ \A i \in hits : Min(hits) <= i
    BY <1>6, <2>1, Numbers!Bounds DEF Min
  <2>3. PICK m \in 1..n : m = Min(hits)
    BY <1>3, <2>2
  <2>4. list[m] \in S /\ Holds(list[m], e)
    BY <1>3, <1>4, <2>2, <2>3
  <2>5. ASSUME NEW q \in S, Holds(q, e), q # list[m] PROVE Precedes(list[m], q)
    <3>1. PICK i \in 1..n : q = list[i]
      BY <1>4
    <3>2. i \in hits
      BY <1>3, <2>5, <3>1
    <3>3. m < i
      BY <2>2, <2>3, <2>5, <3>1, <3>2
    <3> QED
      BY <1>1, <3>1, <3>3 DEF Listing
  <2> QED
    BY <2>3, <2>4, <2>5
<1> QED
  BY <1>2, <1>5, <1>6

\* The rule that decides among those of a set, and that there is only one.
Leads(r, set) ==
  \A q \in set \ {r} : r.priority > q.priority \/ (r.priority = q.priority /\ r.id < q.id)

Leader(set) == CHOOSE r \in set : Leads(r, set)

\* Promised, with the choice of the first rule as an operator of its own.
LEMMA PromisedIs ==
  ASSUME NEW f, NEW e, NEW denying, NEW holding,
         holding = {f.rules[i] : i \in {j \in Enabled(f) : Holds(f.rules[j], e)}},
         denying = {r \in holding : r.kind = "blacklist"}
  PROVE  Promised(f, e) =
           IF denying # {} THEN Decision("alert", Leader(denying))
           ELSE IF holding # {} THEN Decision("whitelist", Leader(holding))
           ELSE Fallback(e)
BY DEF Promised, Leader, Leads, Holds

\* What precedes all others is the one Promised chooses.
LEMMA OneLeads ==
  ASSUME NEW S, Distinct(S), NEW set \in SUBSET S, NEW r \in set,
         \A q \in set : q # r => Precedes(r, q)
  PROVE  r = Leader(set)
<1>1. Leads(r, set)
  BY DEF Leads, Precedes
<1>2. ASSUME NEW x \in set, Leads(x, set) PROVE x = r
  <2>1. x \in S /\ r \in S
    OBVIOUS
  <2>2. x.id \in Nat /\ x.priority \in Int /\ r.id \in Nat /\ r.priority \in Int
    BY <2>1 DEF Distinct
  <2>3. CASE x # r
    <3>1. \/ x.priority > r.priority
          \/ x.priority = r.priority /\ x.id < r.id
      BY <1>2, <2>3 DEF Leads
    <3>2. \/ r.priority > x.priority
          \/ r.priority = x.priority /\ r.id < x.id
      BY <1>1, <2>3 DEF Leads
    <3> QED
      BY <2>2, <3>1, <3>2
  <2> QED
    BY <2>3
<1> QED
  BY <1>1, <1>2 DEF Leader

\* The enabled rules of a kind are finitely many, with ids of their own.
OfKind(f, kind) == {f.rules[i] : i \in {j \in Enabled(f) : f.rules[j].kind = kind}}

LEMMA KindFacts ==
  ASSUME NEW f \in Files, Valid(f), NEW kind
  PROVE  IsFiniteSet(OfKind(f, kind)) /\ Distinct(OfKind(f, kind))
<1>1. /\ f.rules \in Seq(ToSet(f.rules))
      /\ \A r \in ToSet(f.rules) : r.id \in Nat /\ r.priority \in Int
  BY RulesAssumption DEF RulesAssumption, Valid
<1>2. PICK n \in Nat : n = Len(f.rules) /\ DOMAIN f.rules = 1..n
  BY <1>1
<1>3. PICK I : I = {j \in Enabled(f) : f.rules[j].kind = kind}
  OBVIOUS
<1>4. I \subseteq 1..n
  BY <1>2, <1>3 DEF Enabled
<1>5. IsFiniteSet(I)
  <2>1. IsFiniteSet(1..n)
    BY <1>1, <1>2, FS_Interval
  <2> QED
    BY <1>4, <2>1, FS_Subset
<1>6. IsFiniteSet({f.rules[i] : i \in I})
  <2>1. PICK list : list = f.rules
    OBVIOUS
  <2>2. [i \in I |-> list[i]] \in Surjection(I, {list[i] : i \in I})
    BY DEF Surjection
  <2>3. IsFiniteSet({list[i] : i \in I})
    BY <1>5, <2>2, FS_Surjection
  <2> QED
    BY <2>1, <2>3
<1>7. \A i \in I : f.rules[i] \in ToSet(f.rules)
  BY <1>2, <1>4 DEF ToSet
<1>8. \A i, j \in I : f.rules[i].id = f.rules[j].id => i = j
  BY <1>3 DEF Valid
<1> QED
  BY <1>1, <1>3, <1>6, <1>7, <1>8 DEF OfKind, Distinct

\* Walking the two lists of a valid file decides as the file promises.
LEMMA AsPromised ==
  ASSUME NEW f \in Files, Valid(f), NEW e, NEW view, view = Compile(f),
         NEW b, b = Matches(view.blacklist, e), NEW w, w = Matches(view.whitelist, e)
  PROVE  Promised(f, e) =
           IF b # {} THEN Decision("alert", view.blacklist[Min(b)])
           ELSE IF w # {} THEN Decision("whitelist", view.whitelist[Min(w)])
           ELSE Fallback(e)
<1>1. PICK B, W : B = OfKind(f, "blacklist") /\ W = OfKind(f, "whitelist")
  OBVIOUS
<1>2. IsFiniteSet(B) /\ Distinct(B) /\ IsFiniteSet(W) /\ Distinct(W)
  BY <1>1, KindFacts
<1>3. view.blacklist = Sorted(B) /\ view.whitelist = Sorted(W)
  BY <1>1 DEF Compile, Ordered, OfKind
<1>4. PICK holding, denying :
        /\ holding = {f.rules[i] : i \in {j \in Enabled(f) : Holds(f.rules[j], e)}}
        /\ denying = {r \in holding : r.kind = "blacklist"}
  OBVIOUS
<1>5. denying = {r \in B : Holds(r, e)}
  BY <1>1, <1>4 DEF OfKind
<1>6. holding = {r \in B : Holds(r, e)} \union {r \in W : Holds(r, e)}
  BY <1>1, <1>4 DEF OfKind, Valid
<1> DEFINE Choice == IF denying # {} THEN Decision("alert", Leader(denying))
                     ELSE IF holding # {} THEN Decision("whitelist", Leader(holding))
                     ELSE Fallback(e)
<1>0. Promised(f, e) = Choice
  BY <1>4, PromisedIs
<1>7. CASE b # {}
  <2>1. PICK r : r = view.blacklist[Min(b)]
    OBVIOUS
  <2>2. /\ r \in B /\ Holds(r, e)
        /\ \A q \in B : Holds(q, e) /\ q # r => Precedes(r, q)
    BY <1>2, <1>3, <1>7, <2>1, FirstMatch
  <2>3. denying \in SUBSET B /\ r \in denying /\ \A q \in denying : q # r => Precedes(r, q)
    BY <1>5, <2>2
  <2>4. r = Leader(denying)
    BY <1>2, <2>3, OneLeads
  <2> QED
    BY <1>0, <1>7, <2>1, <2>3, <2>4
<1>8. CASE b = {}
  <2>1. denying = {}
    BY <1>2, <1>3, <1>5, <1>8, FirstMatch
  <2>2. holding = {r \in W : Holds(r, e)}
    BY <1>5, <1>6, <2>1
  <2>3. CASE w # {}
    <3>1. PICK r : r = view.whitelist[Min(w)]
      OBVIOUS
    <3>2. /\ r \in W /\ Holds(r, e)
          /\ \A q \in W : Holds(q, e) /\ q # r => Precedes(r, q)
      BY <1>2, <1>3, <2>3, <3>1, FirstMatch
    <3>3. holding \in SUBSET W /\ r \in holding /\ \A q \in holding : q # r => Precedes(r, q)
      BY <2>2, <3>2
    <3>4. r = Leader(holding)
      BY <1>2, <3>3, OneLeads
    <3> QED
      BY <1>0, <1>8, <2>1, <2>3, <3>1, <3>3, <3>4
  <2>4. CASE w = {}
    <3>1. holding = {}
      BY <1>2, <1>3, <2>2, <2>4, FirstMatch
    <3> QED
      BY <1>0, <1>8, <2>1, <2>4, <3>1
  <2> QED
    BY <2>3, <2>4
<1> QED
  BY <1>7, <1>8

-----------------------------------------------------------------------------
(***************************************************************************)
(* An evaluation keeps to one rule set.                                    *)
(***************************************************************************)

\* Every file there was is one of Files.
FilesInv == file \in Files /\ contents \subseteq Files
            /\ (reloader.at = "read" => reloader.data \in Files)

\* An evaluation under way walks the compiled rules of one valid file, in
\* force when it loaded them, and has found none of its blacklist to hold.
EvaluationInv ==
  evaluation.at # "idle" =>
    \E f \in contents :
      /\ evaluation.view = Compile(f) /\ evaluation.view \in current
      /\ evaluation.at = "whitelist" =>
           Matches(evaluation.view.blacklist, evaluation.event) = {}

\* Every step keeps FilesInv, and, while the rules follow the file,
LEMMA FilesStep == RulesInv /\ FilesInv /\ [RulesNext]_rulesVars => FilesInv'
<1> SUFFICES ASSUME RulesInv, FilesInv, [RulesNext]_rulesVars PROVE FilesInv'
  OBVIOUS
<1>1. CASE UNCHANGED <<file, contents, reloader>>
  BY <1>1 DEF FilesInv
<1>2. ASSUME NEW f \in Files, Edit(f) PROVE FilesInv'
  BY <1>2 DEF Edit, FilesInv
<1>3. CASE TakeSignal
  BY <1>3 DEF TakeSignal, FilesInv
<1>4. CASE ReadFile
  BY <1>4 DEF ReadFile, FilesInv, NotReading
<1>5. CASE Reload
  BY <1>5 DEF Reload, FilesInv, NotReading
<1>6. CASE StopReloader
  BY <1>6 DEF StopReloader, FilesInv
<1>7. Start \/ Hangup \/ Cancel \/ Router \/ UNCHANGED rulesVars =>
        UNCHANGED <<file, contents, reloader>>
  BY DEF Start, Hangup, Cancel, Router, BeginEvaluate, CheckBlacklist, CheckWhitelist, rulesVars
<1> QED
  BY <1>1, <1>2, <1>3, <1>4, <1>5, <1>6, <1>7 DEF RulesNext, Reloader

\* an evaluation keeps to its rule set.
LEMMA EvaluationStep ==
  ASSUME RulesInv, FilesInv, EvaluationInv, OneRuleSet, [RulesNext]_rulesVars
  PROVE  EvaluationInv' /\ OneRuleSet'
<1>0. \A f \in contents : f \in Files /\ Valid(f)
  BY DEF RulesInv, ContentsInv, FilesInv
<1>1. CASE /\ evaluation' = evaluation /\ decided' = decided /\ contents \subseteq contents'
           /\ evaluation.at # "idle" => current \subseteq current'
           /\ evaluation.at = "idle" => current' = current
  <2>1. EvaluationInv'
    BY <1>1 DEF EvaluationInv
  <2>2. OneRuleSet'
    BY <1>1 DEF OneRuleSet
  <2> QED
    BY <2>1, <2>2
<1>2. Start \/ Hangup \/ Cancel \/ TakeSignal \/ ReadFile \/ Reload \/ StopReloader
        \/ UNCHANGED rulesVars \/ (\E f \in Files : Edit(f)) =>
        /\ evaluation' = evaluation /\ decided' = decided /\ contents \subseteq contents'
        /\ evaluation.at # "idle" => current \subseteq current'
        /\ evaluation.at = "idle" => current' = current
  BY DEF Start, Hangup, Cancel, TakeSignal, ReadFile, Reload, Publish, StopReloader, Edit, rulesVars
<1>3. ASSUME NEW e \in Events, BeginEvaluate(e) PROVE EvaluationInv' /\ OneRuleSet'
  <2>1. /\ evaluation' = [at |-> "blacklist", event |-> e, view |-> rules]
        /\ current' = {rules} /\ contents' = contents
    BY <1>3 DEF BeginEvaluate
  <2>2. PICK f \in contents : rules = Compile(f)
    BY <1>3 DEF BeginEvaluate, RulesInv, FollowsFile
  <2>3. evaluation'.at = "blacklist" /\ evaluation'.view = rules
    BY <2>1
  <2> QED
    BY <2>1, <2>2, <2>3 DEF EvaluationInv, OneRuleSet
<1>4. ASSUME evaluation.at # "idle", NEW d, Decide(evaluation.event, d),
             UNCHANGED <<current, contents>>,
             \A f \in contents : evaluation.view = Compile(f) /\
               (evaluation.at = "whitelist" =>
                  Matches(evaluation.view.blacklist, evaluation.event) = {}) =>
                 d = Promised(f, evaluation.event)
      PROVE  EvaluationInv' /\ OneRuleSet'
  <2>1. PICK f \in contents :
          /\ evaluation.view = Compile(f) /\ evaluation.view \in current
          /\ evaluation.at = "whitelist" =>
               Matches(evaluation.view.blacklist, evaluation.event) = {}
    BY <1>4 DEF EvaluationInv
  <2>2. PICK e : e = evaluation.event
    OBVIOUS
  <2>3. d = Promised(f, e) /\ Compile(f) \in current
    BY <1>4, <2>1, <2>2
  <2>4. decided' = {[event |-> e, decision |-> d]} /\ evaluation'.at = "idle"
    BY <1>4, <2>2 DEF Decide, NoEvaluation
  <2>5. \A x \in decided' : x.event = e /\ x.decision = d
    BY <2>4
  <2>6. OneRuleSet'
    BY <1>4, <2>1, <2>3, <2>5 DEF OneRuleSet
  <2> QED
    BY <2>4, <2>6 DEF EvaluationInv
<1>5. CASE CheckBlacklist
  <2>1. PICK e, hits : e = evaluation.event /\ hits = Matches(evaluation.view.blacklist, e)
    OBVIOUS
  <2>2. evaluation.at = "blacklist" /\ UNCHANGED <<current, contents>>
    BY <1>5 DEF CheckBlacklist
  <2>3. CASE hits = {}
    <3>1. evaluation' = [evaluation EXCEPT !.at = "whitelist"] /\ UNCHANGED decided
      BY <1>5, <2>1, <2>3 DEF CheckBlacklist
    <3>2. PICK f \in contents : evaluation.view = Compile(f) /\ evaluation.view \in current
      BY <2>2 DEF EvaluationInv
    <3>3. evaluation'.view = evaluation.view /\ evaluation'.event = evaluation.event
          /\ evaluation'.at # "idle"
      BY <2>2, <3>1, <3>2 DEF EvaluationInv
    <3> QED
      BY <2>1, <2>2, <2>3, <3>2, <3>3 DEF EvaluationInv, OneRuleSet
  <2>4. CASE hits # {}
    <3>1. PICK d : d = Decision("alert", evaluation.view.blacklist[Min(hits)])
      OBVIOUS
    <3>2. Decide(evaluation.event, d)
      BY <1>5, <2>1, <2>4, <3>1 DEF CheckBlacklist
    <3>3. ASSUME NEW f \in contents, evaluation.view = Compile(f) PROVE d = Promised(f, e)
      BY <1>0, <2>1, <2>4, <3>1, <3>3, AsPromised
    <3> QED
      BY <1>4, <2>1, <2>2, <3>2, <3>3
  <2> QED
    BY <2>3, <2>4
<1>6. CASE CheckWhitelist
  <2>1. PICK e, hits : e = evaluation.event /\ hits = Matches(evaluation.view.whitelist, e)
    OBVIOUS
  <2>2. evaluation.at = "whitelist" /\ UNCHANGED <<current, contents>>
    BY <1>6 DEF CheckWhitelist
  <2>3. PICK d : d = IF hits = {} THEN Fallback(e)
                     ELSE Decision("whitelist", evaluation.view.whitelist[Min(hits)])
    OBVIOUS
  <2>4. Decide(evaluation.event, d)
    BY <1>6, <2>1, <2>3 DEF CheckWhitelist
  <2>5. ASSUME NEW f \in contents, evaluation.view = Compile(f),
               Matches(evaluation.view.blacklist, e) = {}
        PROVE  d = Promised(f, e)
    BY <1>0, <2>1, <2>3, <2>5, AsPromised
  <2> QED
    BY <1>4, <2>1, <2>2, <2>4, <2>5
<1> QED
  BY <1>1, <1>2, <1>3, <1>5, <1>6 DEF RulesNext, Reloader, Router

\* An event is decided by one rule set, the whole blacklist before the whitelist
\* and each by priority and id, although the reloader publishes others meanwhile
\* (Evaluate loads the snapshot pointer once, compileDetectionSnapshot sorts it).
THEOREM DecidedByOneRuleSet == RulesSpec => []OneRuleSet
<1>1. RulesInit => FilesInv /\ EvaluationInv /\ OneRuleSet
  BY DEF RulesInit, FilesInv, EvaluationInv, OneRuleSet, NotReading, NoEvaluation
<1>2. RulesInv /\ FilesInv /\ EvaluationInv /\ OneRuleSet /\ [RulesNext]_rulesVars
        => (FilesInv /\ EvaluationInv /\ OneRuleSet)'
  BY FilesStep, EvaluationStep
<1> QED
  BY <1>1, <1>2, InitRules, StepRules, PTL DEF RulesSpec

-----------------------------------------------------------------------------
\* A finite set has a least element under a total preorder on it.
LEMMA LeastOf ==
  ASSUME NEW S, IsFiniteSet(S), S # {}, NEW R,
         \A x, y \in S : <<x, y>> \in R \/ <<y, x>> \in R,
         \A x, y, z \in S : <<x, y>> \in R /\ <<y, z>> \in R => <<x, z>> \in R
  PROVE  \E x \in S : \A y \in S : <<x, y>> \in R
<1> DEFINE HasLeast(T) == \E x \in T : \A y \in T : <<x, y>> \in R
           N == {n \in Nat : \A T \in SUBSET S : T # {} /\ Cardinality(T) <= n => HasLeast(T)}
<1>1. 0 \in N
  <2>1. ASSUME NEW T \in SUBSET S, Cardinality(T) <= 0 PROVE T = {}
    BY <2>1, FS_EmptySet, FS_Subset, FS_CardinalityType
  <2> QED
    BY <2>1
<1>2. ASSUME NEW n \in Nat, n \in N PROVE n + 1 \in N
  <2> SUFFICES ASSUME NEW T \in SUBSET S, T # {}, Cardinality(T) <= n + 1 PROVE HasLeast(T)
    OBVIOUS
  <2>1. PICK x : x \in T
    OBVIOUS
  <2>2. PICK U : U = T \ {x}
    OBVIOUS
  <2>3. U \in SUBSET S /\ T = U \union {x}
    BY <2>1, <2>2
  <2>4. Cardinality(U) <= n
    <3>1. IsFiniteSet(T) /\ Cardinality(T) \in Nat
      BY FS_Subset, FS_CardinalityType
    <3>2. Cardinality(U) = Cardinality(T) - 1
      BY <2>1, <2>2, <3>1, FS_RemoveElement
    <3> QED
      BY <3>1, <3>2
  <2>5. CASE U = {}
    BY <2>1, <2>3, <2>5
  <2>6. CASE U # {}
    <3>1. PICK r \in U : \A y \in U : <<r, y>> \in R
      BY <1>2, <2>3, <2>4, <2>6
    <3>2. CASE <<r, x>> \in R
      BY <2>3, <3>1, <3>2
    <3>3. CASE <<x, r>> \in R
      <4>1. x \in S /\ r \in S /\ U \subseteq S
        BY <2>1, <2>3, <3>1
      <4>2. \A y \in U : <<x, y>> \in R
        BY <3>1, <3>3, <4>1
      <4>3. <<x, x>> \in R
        BY <4>1
      <4> QED
        BY <2>1, <2>3, <4>2, <4>3
    <3> QED
      BY <2>3, <3>1, <3>2, <3>3
  <2> QED
    BY <2>5, <2>6
<1>3. Cardinality(S) \in Nat
  BY FS_CardinalityType
<1>4. Cardinality(S) \in N
  <2> HIDE DEF N
  <2> QED
    BY <1>1, <1>2, <1>3, Numbers!Induction
<1> QED
  BY <1>3, <1>4

\* So finitely many events or behaviors have a first and a last.
LEMMA FirstAndLast ==
  ASSUME NEW S, IsFiniteSet(S), S # {}, \A x \in S : x.time \in Int
  PROVE  /\ \E x \in S : \A y \in S : x.time <= y.time
         /\ \E x \in S : \A y \in S : y.time <= x.time
<1> DEFINE R == {p \in S \X S : p[1].time <= p[2].time}
           Q == {p \in S \X S : p[2].time <= p[1].time}
<1>1. \A x, y \in S : /\ <<x, y>> \in R <=> x.time <= y.time
                      /\ <<x, y>> \in Q <=> y.time <= x.time
  OBVIOUS
<1>2. /\ \A x, y \in S : <<x, y>> \in R \/ <<y, x>> \in R
      /\ \A x, y \in S : <<x, y>> \in Q \/ <<y, x>> \in Q
  BY <1>1
<1>3. /\ \A x, y, z \in S : <<x, y>> \in R /\ <<y, z>> \in R => <<x, z>> \in R
      /\ \A x, y, z \in S : <<x, y>> \in Q /\ <<y, z>> \in Q => <<x, z>> \in Q
  BY <1>1
<1> HIDE DEF R, Q
<1>4. \E x \in S : \A y \in S : <<x, y>> \in R
  BY <1>2, <1>3, LeastOf
<1>5. \E x \in S : \A y \in S : <<x, y>> \in Q
  BY <1>2, <1>3, LeastOf
<1> QED
  BY <1>1, <1>4, <1>5

-----------------------------------------------------------------------------
\* Behaviors.

\* What the repository may hold.
View(V) == V \subseteq Telemetry /\ IsFiniteSet(V)

\* The first file a downloader wrote is one it wrote.
LEMMA FirstDownload ==
  ASSUME NEW V, View(V), NEW d, Behavior!Downloads(d, V) # {}
  PROVE  Behavior!FirstOf(Behavior!Downloads(d, V)) \in Behavior!Downloads(d, V)
<1> DEFINE D == Behavior!Downloads(d, V)
<1>1. D \subseteq V
  BY DEF Behavior!Downloads
<1>2. IsFiniteSet(D) /\ \A e \in D : e.time \in Int
  BY <1>1, FS_Subset, PipelineAssumption DEF View
<1>3. \E e \in D : \A f \in D : e.time <= f.time
  BY <1>2, FirstAndLast
<1> QED
  BY <1>3 DEF Behavior!FirstOf

\* A behavior is one of an event that shows it, or of the first file of a download.
OfEvent(b, V) ==
  \E code \in Behavior!Codes, e \in V :
    /\ Behavior!Shows(code, e, V)
    /\ b = Behavior!Behavior(code, e, {e} \union (IF code = "B004" THEN Behavior!Uses(e, V) ELSE {}))

OfDownload(b, V) ==
  \E d \in V : \E f \in Behavior!Downloads(d, V) : b = Behavior!Behavior("B003", f, {d, f})

LEMMA DerivedFrom ==
  ASSUME NEW V, View(V), NEW b \in Behavior!Derive(V)
  PROVE  OfEvent(b, V) \/ OfDownload(b, V)
BY FirstDownload DEF Behavior!Derive, OfEvent, OfDownload

LEMMA BehaviorFacts ==
  ASSUME NEW V, View(V), NEW b \in Behavior!Derive(V)
  PROVE  /\ b.time \in Int /\ b.evidence \subseteq V
         /\ \E e \in b.evidence :
              /\ b.time = e.time /\ b.scope = <<e.host, e.container>>
              /\ b.code # "B003" => Behavior!Shows(b.code, e, V)
              /\ b.code = "B003" => \E d \in b.evidence : e \in Behavior!Downloads(d, V)
<1>1. CASE OfEvent(b, V)
  <2>1. PICK code \in Behavior!Codes, e \in V :
          /\ Behavior!Shows(code, e, V)
          /\ b = Behavior!Behavior(code, e, {e} \union (IF code = "B004" THEN Behavior!Uses(e, V) ELSE {}))
    BY <1>1 DEF OfEvent
  <2>2. /\ b.code = code /\ b.time = e.time /\ b.scope = <<e.host, e.container>>
        /\ b.evidence = {e} \union (IF code = "B004" THEN Behavior!Uses(e, V) ELSE {})
    BY <2>1 DEF Behavior!Behavior
  <2>3. Behavior!Uses(e, V) \subseteq V /\ e.time \in Int /\ code # "B003"
    BY PipelineAssumption DEF Behavior!Uses, View, Behavior!Codes
  <2> QED
    BY <2>1, <2>2, <2>3
<1>2. CASE OfDownload(b, V)
  <2>1. PICK d \in V : \E f \in Behavior!Downloads(d, V) : b = Behavior!Behavior("B003", f, {d, f})
    BY <1>2 DEF OfDownload
  <2>0. PICK f \in Behavior!Downloads(d, V) : b = Behavior!Behavior("B003", f, {d, f})
    BY <2>1
  <2>2. /\ b.code = "B003" /\ b.time = f.time /\ b.scope = <<f.host, f.container>>
        /\ b.evidence = {d, f}
    BY <2>0 DEF Behavior!Behavior
  <2>3. f \in V /\ f.time \in Int
    BY PipelineAssumption DEF Behavior!Downloads, View
  <2> QED
    BY <2>2, <2>3
<1> QED
  BY <1>1, <1>2, DerivedFrom

\* There are finitely many.
LEMMA FinitelyMany ==
  ASSUME NEW V, View(V)
  PROVE  IsFiniteSet(Behavior!Derive(V))
<1> DEFINE Cases == {c \in Behavior!Codes \X V : Behavior!Shows(c[1], c[2], V)}
           D == {e \in V : Behavior!Downloads(e, V) # {}}
           G(c) == Behavior!Behavior(c[1], c[2],
                     {c[2]} \union (IF c[1] = "B004" THEN Behavior!Uses(c[2], V) ELSE {}))
           H(d) == LET f == Behavior!FirstOf(Behavior!Downloads(d, V))
                   IN Behavior!Behavior("B003", f, {d, f})
<1>1. IsFiniteSet(Behavior!Codes)
  <2>1. Behavior!Codes = {"B900", "B001", "B002", "B004"} \union {"B005", "B006", "B007", "B008"}
    BY DEF Behavior!Codes
  <2>2. \A x, y, z, w : IsFiniteSet({x, y, z, w})
    <3> TAKE x, y, z, w
    <3>1. IsFiniteSet({x})
      BY FS_Singleton
    <3>2. IsFiniteSet({x} \union {y})
      BY <3>1, FS_AddElement
    <3>3. IsFiniteSet(({x} \union {y}) \union {z})
      BY <3>2, FS_AddElement
    <3>4. IsFiniteSet((({x} \union {y}) \union {z}) \union {w})
      BY <3>3, FS_AddElement
    <3>5. {x, y, z, w} = (({x} \union {y}) \union {z}) \union {w}
      OBVIOUS
    <3> QED
      BY <3>4, <3>5
  <2> QED
    BY <2>1, <2>2, FS_Union
<1>2. IsFiniteSet(Behavior!Codes \X V)
  BY <1>1, FS_Product DEF View
<1>3. IsFiniteSet(Cases) /\ IsFiniteSet(D)
  BY <1>2, FS_Subset DEF View
<1> HIDE DEF Cases, D
<1>4. IsFiniteSet({G(c) : c \in Cases})
  <2> HIDE DEF G
  <2>1. PICK g : g = [c \in Cases |-> G(c)]
    OBVIOUS
  <2>2. g \in Surjection(Cases, {G(c) : c \in Cases})
    BY <2>1 DEF Surjection
  <2> QED
    BY <1>3, <2>2, FS_Surjection
<1>5. IsFiniteSet({H(d) : d \in D})
  <2> HIDE DEF H
  <2>1. PICK h : h = [d \in D |-> H(d)]
    OBVIOUS
  <2>2. h \in Surjection(D, {H(d) : d \in D})
    BY <2>1 DEF Surjection
  <2> QED
    BY <1>3, <2>2, FS_Surjection
<1>6. Behavior!Derive(V) = {G(c) : c \in Cases} \union {H(d) : d \in D}
  BY DEF Behavior!Derive, Cases, D
<1> HIDE DEF G, H
<1> QED
  BY <1>4, <1>5, <1>6, FS_Union

-----------------------------------------------------------------------------
\* Incidents.

\* What IncidentsJustified says of one incident, when V is stored.
Grounds(i, V) ==
  /\ i.evidence \subseteq V
  /\ \E shell \in i.evidence :
       /\ i.id = <<<<shell.host, shell.container>>, shell.time>>
       /\ Behavior!Shows("B001", shell, V)
       /\ \E d, f \in i.evidence : Follows(shell, f) /\ f \in Behavior!Downloads(d, V)
       /\ \E r \in i.evidence : Follows(shell, r) /\ Behavior!RunsTemp(r)
       /\ \E c \in i.evidence : Follows(shell, c) /\ Behavior!Shows("B008", c, V)

\* An incident stays justified when more is stored.
LEMMA GroundsKept ==
  ASSUME NEW V, NEW W, V \subseteq W, NEW i, Grounds(i, V)
  PROVE  Grounds(i, W)
<1>1. \A d, f : f \in Behavior!Downloads(d, V) => f \in Behavior!Downloads(d, W)
  BY DEF Behavior!Downloads
<1>2. \A e : Behavior!Shows("B001", e, V) => Behavior!Shows("B001", e, W)
  BY DEF Behavior!Shows
<1>3. \A e : Behavior!Shows("B008", e, V) => Behavior!Shows("B008", e, W)
  BY DEF Behavior!Shows, Behavior!FromTemp
<1> QED
  BY <1>1, <1>2, <1>3 DEF Grounds

\* The incidents of a pipeline over V are justified.
LEMMA CorrelatedGrounds ==
  ASSUME NEW V, View(V), NEW i \in Incident!Correlate(Behavior!Derive(V))
  PROVE  Grounds(i, V)
<1> DEFINE B == Behavior!Derive(V)
           Of(s) == {b \in B : b.scope = s}
           Chained(s) == Incident!Correlated(Of(s), Incident!Start(Of(s)))
<1>1. PICK s : /\ Incident!Shells(Of(s)) # {}
               /\ Incident!Pattern \subseteq {b.code : b \in Chained(s)}
               /\ i = Incident!Incident(s, Incident!Start(Of(s)), Chained(s))
  BY DEF Incident!Correlate
<1>2. PICK start : start = Incident!Start(Of(s))
  OBVIOUS
<1>3. PICK chain : chain = Chained(s)
  OBVIOUS
<1>4. start \in B /\ start.scope = s /\ start.code = "B001"
  <2> DEFINE S == Incident!Shells(Of(s))
  <2>1. S \subseteq B
    BY DEF Incident!Shells
  <2>2. IsFiniteSet(S) /\ \A b \in S : b.time \in Int
    BY <2>1, FinitelyMany, FS_Subset, BehaviorFacts
  <2>3. \E b \in S : \A c \in S : b.time <= c.time
    BY <1>1, <2>2, FirstAndLast
  <2>4. start \in S
    BY <1>2, <2>3 DEF Incident!Start
  <2> QED
    BY <2>4 DEF Incident!Shells
<1>5. chain = {b \in Of(s) : b.time >= start.time /\ b.time - start.time <= CorrelationWindow}
  BY <1>2, <1>3 DEF Incident!Correlated
<1>6. /\ i.id = <<s, start.time>>
      /\ i.evidence = UNION {b.evidence : b \in chain}
  BY <1>1, <1>2, <1>3 DEF Incident!Incident
<1> HIDE DEF Chained
<1>7. start \in chain
  <2>1. start.time \in Int /\ start.time - start.time = 0
    BY <1>4, BehaviorFacts
  <2> QED
    BY <1>4, <1>5, <2>1, PipelineAssumption
<1>8. PICK shell \in start.evidence :
        /\ start.time = shell.time /\ s = <<shell.host, shell.container>>
        /\ Behavior!Shows("B001", shell, V)
  <2>1. PICK shell \in start.evidence :
          /\ start.time = shell.time /\ start.scope = <<shell.host, shell.container>>
          /\ start.code # "B003" => Behavior!Shows(start.code, shell, V)
    BY <1>4, BehaviorFacts
  <2>2. start.code = "B001" /\ start.scope = s
    BY <1>4
  <2> QED
    BY <2>1, <2>2
<1>9. ASSUME NEW b \in chain
      PROVE  /\ b.evidence \subseteq V /\ b.evidence \subseteq i.evidence
             /\ \E e \in b.evidence :
                  /\ Follows(shell, e)
                  /\ b.code # "B003" => Behavior!Shows(b.code, e, V)
                  /\ b.code = "B003" => \E d \in b.evidence : e \in Behavior!Downloads(d, V)
  <2>1. /\ b \in B /\ b.scope = s
        /\ b.time >= start.time /\ b.time - start.time <= CorrelationWindow
    BY <1>5
  <2>2. PICK e \in b.evidence :
          /\ b.time = e.time /\ b.scope = <<e.host, e.container>>
          /\ b.code # "B003" => Behavior!Shows(b.code, e, V)
          /\ b.code = "B003" => \E d \in b.evidence : e \in Behavior!Downloads(d, V)
    BY <2>1, BehaviorFacts
  <2>3. Follows(shell, e)
    BY <1>8, <2>1, <2>2 DEF Follows, Behavior!Within
  <2>4. b.evidence \subseteq V
    BY <2>1, BehaviorFacts
  <2> QED
    BY <1>6, <2>2, <2>3, <2>4
<1>10. ASSUME NEW code \in {"B003", "B006", "B008"} PROVE \E b \in chain : b.code = code
  <2>1. code \in {b.code : b \in chain}
    BY <1>1, <1>3 DEF Incident!Pattern
  <2> QED
    BY <2>1
<1> HIDE DEF B, Of
<1>11. i.evidence \subseteq V
  BY <1>6, <1>9
<1>12. shell \in i.evidence
  BY <1>7, <1>8, <1>9
<1>13. \E d, f \in i.evidence : Follows(shell, f) /\ f \in Behavior!Downloads(d, V)
  <2>1. PICK b \in chain : b.code = "B003"
    BY <1>10
  <2> QED
    BY <1>9, <2>1
<1>14. \E r \in i.evidence : Follows(shell, r) /\ Behavior!RunsTemp(r)
  <2>1. PICK b \in chain : b.code = "B006"
    BY <1>10
  <2>2. PICK r \in b.evidence : Follows(shell, r) /\ Behavior!Shows("B006", r, V)
    BY <1>9, <2>1
  <2>3. Behavior!RunsTemp(r)
    BY <2>2 DEF Behavior!Shows
  <2> QED
    BY <1>9, <2>2, <2>3
<1>15. \E c \in i.evidence : Follows(shell, c) /\ Behavior!Shows("B008", c, V)
  <2>1. PICK b \in chain : b.code = "B008"
    BY <1>10
  <2> QED
    BY <1>9, <2>1
<1> QED
  BY <1>6, <1>8, <1>11, <1>12, <1>13, <1>14, <1>15 DEF Grounds
-----------------------------------------------------------------------------
\* Levels.

Level == {"NORMAL", "WATCH", "INVESTIGATION"}

Policies == [ServerScopes -> [level : Level, expires : Int]]

Raised(level, t) == [level |-> level, expires |-> t + InvestigationWindow]

\* What set makes of a scope's policy.
Renewed(policy, level, t) ==
  IF Collection!Rank[level] >= Collection!Rank[policy.level] \/ policy.expires < t
    THEN Raised(level, t) ELSE policy

LEMMA SetFacts ==
  ASSUME NEW P \in Policies, NEW s, NEW level \in Level, NEW t \in Int
  PROVE  /\ Collection!Set(P, s, level, t) \in Policies
         /\ \A q \in ServerScopes :
              Collection!Set(P, s, level, t)[q] =
                IF q = s THEN Renewed(P[q], level, t) ELSE P[q]
<1>1. PICK r : r = Raised(level, t)
  OBVIOUS
<1>2. r \in [level : Level, expires : Int]
  BY <1>1, PipelineAssumption DEF Raised
<1>3. Collection!Set(P, s, level, t) =
        IF Collection!Rank[level] >= Collection!Rank[P[s].level] \/ P[s].expires < t
          THEN [P EXCEPT ![s] = r] ELSE P
  BY <1>1 DEF Collection!Set, Collection!Over, Raised
<1> QED
  BY <1>1, <1>2, <1>3 DEF Policies, Renewed

\* Renewing: INVESTIGATION replaces everything; WATCH neither it, in its window,
\* nor itself.
LEMMA RenewedFacts ==
  ASSUME NEW policy \in [level : Level, expires : Int], NEW t \in Int
  PROVE  /\ Renewed(policy, "INVESTIGATION", t) = Raised("INVESTIGATION", t)
         /\ Renewed(policy, "WATCH", t) =
              IF policy.level = "INVESTIGATION" /\ ~ (policy.expires < t)
                THEN policy ELSE Raised("WATCH", t)
         /\ Renewed(Raised("INVESTIGATION", t), "WATCH", t) = Raised("INVESTIGATION", t)
         /\ Renewed(Renewed(policy, "WATCH", t), "WATCH", t) = Renewed(policy, "WATCH", t)
<1>1. /\ Collection!Rank["NORMAL"] = 0 /\ Collection!Rank["WATCH"] = 1
      /\ Collection!Rank["INVESTIGATION"] = 2
  BY DEF Collection!Rank
<1>2. /\ Raised("INVESTIGATION", t).level = "INVESTIGATION"
      /\ ~ (Raised("INVESTIGATION", t).expires < t)
  BY PipelineAssumption DEF Raised
<1>3. Raised("WATCH", t).level = "WATCH"
  BY DEF Raised
<1>4. policy.level \in Level
  OBVIOUS
<1>5. /\ Renewed(policy, "INVESTIGATION", t) = Raised("INVESTIGATION", t)
      /\ Renewed(policy, "WATCH", t) =
           IF policy.level = "INVESTIGATION" /\ ~ (policy.expires < t)
             THEN policy ELSE Raised("WATCH", t)
  BY <1>1, <1>4 DEF Renewed, Level
<1>6. /\ Renewed(Raised("INVESTIGATION", t), "WATCH", t) = Raised("INVESTIGATION", t)
      /\ Renewed(Raised("WATCH", t), "WATCH", t) = Raised("WATCH", t)
  <2> HIDE DEF Raised
  <2> QED
    BY <1>1, <1>2, <1>3 DEF Renewed
<1>7. CASE policy.level = "INVESTIGATION" /\ ~ (policy.expires < t)
  BY <1>5, <1>6, <1>7, Zenon
<1>8. CASE ~ (policy.level = "INVESTIGATION" /\ ~ (policy.expires < t))
  BY <1>5, <1>6, <1>8, Zenon
<1> QED
  BY <1>5, <1>6, <1>7, <1>8

\* ObserveBehaviors is a fold of set over the behaviors that call for a level.
LevelFold == INSTANCE FoldFacts
  WITH op <- LAMBDA p, x, y : Collection!Set(y, x.scope, Collection!Wanted(x.code), p),
       f <- LAMBDA q, i : i, choose <- LAMBDA s : Collection!Latest(s)

Calling(B) == {b \in B : Collection!Wanted(b.code) # "NORMAL"}

LEMMA ObservedFold ==
  ASSUME NEW P, NEW B, NEW t
  PROVE  Collection!ObserveBehaviors(P, B, t) = LevelFold!FoldOf(t, 0, P, Calling(B))
BY DEF Collection!ObserveBehaviors, Calling, LevelFold!FoldOf,
       Collection!MapThenFoldSet, LevelFold!MapThenFoldSet

LEMMA LatestChooses ==
  ASSUME NEW S, IsFiniteSet(S), \A b \in S : b.time \in Int
  PROVE  LevelFold!Chooses(S) /\ LevelFold!IsFiniteSet(S)
<1>1. ASSUME NEW T \in SUBSET S, T # {} PROVE Collection!Latest(T) \in T
  <2>1. IsFiniteSet(T) /\ \A b \in T : b.time \in Int
    BY <1>1, FS_Subset
  <2>2. \E b \in T : \A c \in T : c.time <= b.time
    BY <1>1, <2>1, FirstAndLast
  <2> QED
    BY <2>2 DEF Collection!Latest
<1> QED
  BY <1>1 DEF LevelFold!Chooses, LevelFold!IsFiniteSet, IsFiniteSet

\* The policy of a scope after the behaviors T, in whichever order.
After(policy, T, s, t) ==
  IF \E b \in T : b.scope = s /\ b.code = "B900" THEN Raised("INVESTIGATION", t)
  ELSE IF \E b \in T : b.scope = s /\ b.code = "B001" THEN Renewed(policy, "WATCH", t)
  ELSE policy

\* Q are the policies after the behaviors T, from P.
Reached(Q, P, T, t) == Q \in Policies /\ \A s \in ServerScopes : Q[s] = After(P[s], T, s, t)

LEMMA OneMore ==
  ASSUME NEW t \in Int, NEW P \in Policies, NEW T, NEW Q, Reached(Q, P, T, t),
         NEW x, Collection!Wanted(x.code) # "NORMAL"
  PROVE  Reached(Collection!Set(Q, x.scope, Collection!Wanted(x.code), t), P, T \union {x}, t)
<1>0. PICK R : R = Collection!Set(Q, x.scope, Collection!Wanted(x.code), t)
  OBVIOUS
<1>1. PICK level : level = Collection!Wanted(x.code)
  OBVIOUS
<1>2. \/ x.code = "B900" /\ level = "INVESTIGATION"
      \/ x.code = "B001" /\ level = "WATCH"
  BY <1>1 DEF Collection!Wanted
<1>3. /\ R \in Policies
      /\ \A s \in ServerScopes : R[s] = IF s = x.scope THEN Renewed(Q[s], level, t) ELSE Q[s]
  <2>1. level \in Level /\ Q \in Policies
    BY <1>2 DEF Level, Reached
  <2> QED
    BY <1>0, <1>1, <2>1, SetFacts
<1>4. ASSUME NEW s \in ServerScopes PROVE R[s] = After(P[s], T \union {x}, s, t)
  <2>1. /\ P[s] \in [level : Level, expires : Int] /\ Q[s] \in [level : Level, expires : Int]
        /\ Q[s] = After(P[s], T, s, t)
    BY DEF Policies, Reached
  <2>2. CASE s # x.scope
    BY <1>3, <2>1, <2>2 DEF After
  <2>3. CASE s = x.scope /\ x.code = "B900"
    BY <1>2, <1>3, <2>1, <2>3, RenewedFacts DEF After
  <2>4. CASE s = x.scope /\ x.code = "B001"
    <3>1. R[s] = Renewed(Q[s], "WATCH", t)
      BY <1>2, <1>3, <2>4
    <3>2. CASE \E b \in T : b.scope = s /\ b.code = "B900"
      <4>1. Q[s] = Raised("INVESTIGATION", t)
        BY <2>1, <3>2 DEF After
      <4>2. After(P[s], T \union {x}, s, t) = Raised("INVESTIGATION", t)
        BY <3>2 DEF After
      <4> QED
        BY <2>1, <3>1, <4>1, <4>2, RenewedFacts
    <3>3. CASE ~ \E b \in T : b.scope = s /\ b.code = "B900"
      <4>1. Q[s] \in {P[s], Renewed(P[s], "WATCH", t)}
        BY <2>1, <3>3 DEF After
      <4>2. After(P[s], T \union {x}, s, t) = Renewed(P[s], "WATCH", t)
        BY <2>4, <3>3 DEF After
      <4> QED
        BY <2>1, <3>1, <4>1, <4>2, RenewedFacts
    <3> QED
      BY <3>2, <3>3
  <2> QED
    BY <1>2, <2>2, <2>3, <2>4
<1> QED
  BY <1>0, <1>3, <1>4 DEF Reached

LEMMA ObservedIs ==
  ASSUME NEW P \in Policies, NEW B, IsFiniteSet(B), \A b \in B : b.time \in Int, NEW t \in Int
  PROVE  Reached(Collection!ObserveBehaviors(P, B, t), P, B, t)
<1> DEFINE S == Calling(B)
           Right(T) == Reached(LevelFold!FoldOf(t, 0, P, T), P, T, t)
           N == {n \in Nat : \A T \in SUBSET S : Cardinality(T) <= n => Right(T)}
<1>0. S \subseteq B /\ IsFiniteSet(S) /\ \A b \in S : Collection!Wanted(b.code) # "NORMAL"
  <2>1. S \subseteq B
    BY DEF Calling
  <2> QED
    BY <2>1, FS_Subset DEF Calling
<1> HIDE DEF S
<1>1. Right({})
  BY LevelFold!Empty DEF After, Reached
<1>2. 0 \in N
  <2>1. ASSUME NEW T \in SUBSET S, Cardinality(T) <= 0 PROVE T = {}
    BY <1>0, <2>1, FS_EmptySet, FS_Subset, FS_CardinalityType
  <2> QED
    BY <1>1, <2>1
<1>3. ASSUME NEW n \in Nat, n \in N PROVE n + 1 \in N
  <2> SUFFICES ASSUME NEW T \in SUBSET S, T # {}, Cardinality(T) <= n + 1 PROVE Right(T)
    BY <1>1
  <2>1. LevelFold!Chooses(T) /\ LevelFold!IsFiniteSet(T) /\ IsFiniteSet(T)
    BY <1>0, FS_Subset, LatestChooses
  <2>2. PICK x \in T :
          LevelFold!FoldOf(t, 0, P, T)
            = Collection!Set(LevelFold!FoldOf(t, 0, P, T \ {x}), x.scope,
                             Collection!Wanted(x.code), t)
    BY <2>1, LevelFold!SomeFirst
  <2>3. PICK U : U = T \ {x}
    OBVIOUS
  <2>4. U \in SUBSET S /\ T = U \union {x} /\ Cardinality(U) <= n
    <3>1. Cardinality(T) \in Nat /\ Cardinality(U) = Cardinality(T) - 1
      BY <2>1, <2>3, FS_CardinalityType, FS_RemoveElement
    <3> QED
      BY <2>2, <2>3, <3>1
  <2>5. Right(U)
    BY <1>3, <2>4
  <2>6. PICK Q : Q = LevelFold!FoldOf(t, 0, P, U)
    OBVIOUS
  <2>7. Reached(Q, P, U, t) /\ Collection!Wanted(x.code) # "NORMAL"
    BY <1>0, <2>5, <2>6
  <2>8. Reached(Collection!Set(Q, x.scope, Collection!Wanted(x.code), t), P, U \union {x}, t)
    BY <2>7, OneMore
  <2> QED
    BY <2>2, <2>3, <2>4, <2>6, <2>8
<1>4. Cardinality(S) \in Nat
  BY <1>0, FS_CardinalityType
<1>5. Cardinality(S) \in N
  <2> HIDE DEF N
  <2> QED
    BY <1>2, <1>3, <1>4, Numbers!Induction
<1>6. Right(S)
  BY <1>4, <1>5
<1>7. \A s \in ServerScopes : After(P[s], S, s, t) = After(P[s], B, s, t)
  <2>1. \A b : b \in S <=> b \in B /\ Collection!Wanted(b.code) # "NORMAL"
    BY DEF S, Calling
  <2>2. Collection!Wanted("B900") # "NORMAL" /\ Collection!Wanted("B001") # "NORMAL"
    BY DEF Collection!Wanted
  <2> QED
    BY <2>1, <2>2 DEF After
<1> QED
  BY <1>6, <1>7, ObservedFold DEF S, Reached
-----------------------------------------------------------------------------
\* The policies and what was observed: INVESTIGATION ends with the window of the
\* last finding that called for it, another level begins after it, and WATCH ends
\* with the window of the last web shell.
Timed(policy, asked, t) ==
  /\ policy.level = "INVESTIGATION" =>
       policy.expires = asked["INVESTIGATION"] + InvestigationWindow
  /\ policy.level # "INVESTIGATION" =>
       asked["INVESTIGATION"] + InvestigationWindow < t
  /\ policy.level = "WATCH" => policy.expires = asked["WATCH"] + InvestigationWindow

LevelsAt(P, asked, t) ==
  /\ t \in Nat
  /\ P \in Policies
  /\ asked \in [ServerScopes -> [Levels -> Int]]
  /\ \A s \in ServerScopes : Timed(P[s], asked[s], t)

LevelsInv == LevelsAt(policies, observed, uptime)

\* The inductive invariant of the pipeline: the levels with what they are due to,
\* and every incident with the events that justify it.
PipelineInv ==
  /\ View(stored)
  /\ LevelsInv
  /\ \A i \in incidents : Grounds(i, stored)

LEMMA EmptyView == View({})
BY FS_EmptySet DEF View

\* No policy and nothing observed.
LEMMA BlankLevels ==
  ASSUME NEW t \in Nat
  PROVE  LevelsAt(Collection!NoPolicies, [s \in ServerScopes |-> [l \in Levels |-> Never]], t)
<1> DEFINE P == Collection!NoPolicies
           asked == [s \in ServerScopes |-> [l \in Levels |-> Never]]
<1>1. Never \in Int /\ Never + InvestigationWindow < t
  BY PipelineAssumption DEF Never
<1>2. Collection!Unset \in [level : Level, expires : Int] /\ Collection!Unset.level = "NORMAL"
  BY DEF Collection!Unset, Level
<1>3. P \in Policies /\ \A s \in ServerScopes : P[s].level = "NORMAL"
  BY <1>2 DEF Collection!NoPolicies, Policies
<1>4. /\ asked \in [ServerScopes -> [Levels -> Int]]
      /\ \A s \in ServerScopes : asked[s]["INVESTIGATION"] = Never
  BY <1>1 DEF Levels
<1> HIDE DEF P, asked
<1>5. ASSUME NEW s \in ServerScopes PROVE Timed(P[s], asked[s], t)
  BY <1>1, <1>3, <1>4 DEF Timed
<1>6. LevelsAt(P, asked, t)
  BY <1>3, <1>4, <1>5 DEF LevelsAt
<1> QED
  BY <1>6 DEF P, asked

LEMMA PipelineStarts == PipelineInit => PipelineInv
<1> SUFFICES ASSUME PipelineInit PROVE PipelineInv
  OBVIOUS
<1>1. /\ stored = {} /\ incidents = {} /\ uptime \in Nat /\ policies = Collection!NoPolicies
      /\ observed = [s \in ServerScopes |-> [l \in Levels |-> Never]]
  BY DEF PipelineInit
<1> QED
  BY <1>1, BlankLevels, EmptyView DEF PipelineInv, LevelsInv

\* One pipeline over what is stored then.
LEMMA RunKeepsLevels ==
  ASSUME LevelsInv, View(stored'), RunPipeline(stored'), uptime' = uptime
  PROVE  LevelsInv'
<1>1. PICK B : B = Behavior!Derive(stored')
  OBVIOUS
<1>2. PICK F : F = Incident!Correlate(B)
  OBVIOUS
<1>3. PICK P : P = Collection!ObserveBehaviors(policies, B, uptime)
  OBVIOUS
<1>4. uptime \in Int /\ policies \in Policies
  BY DEF LevelsInv, LevelsAt
<1>5. P \in Policies /\ \A s \in ServerScopes : P[s] = After(policies[s], B, s, uptime)
  <2>1. IsFiniteSet(B) /\ \A b \in B : b.time \in Int
    BY <1>1, FinitelyMany, BehaviorFacts
  <2> QED
    BY <1>3, <1>4, <2>1, ObservedIs DEF Reached
<1>6. /\ policies' = Collection!ObserveIncidents(P, F, uptime)
      /\ observed' = [s \in ServerScopes |-> [l \in Levels |->
                        IF Finds(B, F, s, l) THEN uptime ELSE observed[s][l]]]
  BY <1>1, <1>2, <1>3 DEF RunPipeline
<1>7. ASSUME NEW s \in ServerScopes
      PROVE  /\ policies'[s] \in [level : Level, expires : Int]
             /\ observed'[s] \in [Levels -> Int]
             /\ Timed(policies'[s], observed'[s], uptime')
  <2> DEFINE local == \E b \in B : b.scope = s /\ b.code = "B900"
             shell == \E b \in B : b.scope = s /\ b.code = "B001"
             known == \E i \in F : i.scope = s
  <2>1. PICK p, a : p = policies[s] /\ a = observed[s]
    OBVIOUS
  <2>2. /\ p \in [level : Level, expires : Int] /\ a \in [Levels -> Int] /\ Timed(p, a, uptime)
        /\ a["WATCH"] \in Int /\ a["INVESTIGATION"] \in Int
    BY <2>1 DEF LevelsInv, LevelsAt, Policies, Levels
  <2>3. PICK r : r = observed'[s]
    OBVIOUS
  <2>4. /\ r \in [Levels -> Int]
        /\ r["INVESTIGATION"] = IF local \/ known THEN uptime ELSE a["INVESTIGATION"]
        /\ r["WATCH"] = IF shell THEN uptime ELSE a["WATCH"]
    BY <1>4, <1>6, <2>1, <2>2, <2>3 DEF Finds, Levels
  <2>5. PICK q : q = policies'[s]
    OBVIOUS
  <2>6. q = IF known \/ local THEN Raised("INVESTIGATION", uptime)
            ELSE IF shell THEN Renewed(p, "WATCH", uptime)
            ELSE p
    <3>1. P[s] \in [level : Level, expires : Int] /\ P[s] = After(p, B, s, uptime)
      BY <1>5, <2>1 DEF Policies
    <3>2. q = IF known THEN Collection!Set(P, s, "INVESTIGATION", uptime)[s] ELSE P[s]
      BY <1>6, <2>5 DEF Collection!ObserveIncidents
    <3>3. Collection!Set(P, s, "INVESTIGATION", uptime)[s] = Raised("INVESTIGATION", uptime)
      <4>1. "INVESTIGATION" \in Level
        BY DEF Level
      <4>2. Collection!Set(P, s, "INVESTIGATION", uptime)[s] = Renewed(P[s], "INVESTIGATION", uptime)
        BY <1>4, <1>5, <4>1, SetFacts
      <4> QED
        BY <1>4, <3>1, <4>2, RenewedFacts
    <3> QED
      BY <3>1, <3>2, <3>3 DEF After
  <2> HIDE DEF local, shell, known
  <2>7. CASE known \/ local
    <3>1. q = Raised("INVESTIGATION", uptime) /\ r["INVESTIGATION"] = uptime
      BY <2>4, <2>6, <2>7
    <3> QED
      BY <1>4, <2>3, <2>4, <2>5, <3>1, PipelineAssumption DEF Timed, Raised, Level
  <2>8. CASE ~ (known \/ local) /\ shell
    <3>1. /\ q = IF p.level = "INVESTIGATION" /\ ~ (p.expires < uptime)
                   THEN p ELSE Raised("WATCH", uptime)
          /\ r["INVESTIGATION"] = a["INVESTIGATION"] /\ r["WATCH"] = uptime
      BY <1>4, <2>2, <2>4, <2>6, <2>8, RenewedFacts
    <3>2. CASE p.level = "INVESTIGATION" /\ ~ (p.expires < uptime)
      BY <2>2, <2>3, <2>4, <2>5, <3>1, <3>2 DEF Timed
    <3>3. CASE ~ (p.level = "INVESTIGATION" /\ ~ (p.expires < uptime))
      <4>1. a["INVESTIGATION"] + InvestigationWindow < uptime
        BY <2>2, <3>3 DEF Timed
      <4>2. q = Raised("WATCH", uptime)
        BY <3>1, <3>3
      <4> QED
        BY <1>4, <2>3, <2>4, <2>5, <3>1, <4>1, <4>2, PipelineAssumption
           DEF Timed, Raised, Level
    <3> QED
      BY <3>2, <3>3
  <2>9. CASE ~ (known \/ local) /\ ~ shell
    BY <2>2, <2>3, <2>4, <2>5, <2>6, <2>9 DEF Timed
  <2> QED
    BY <2>7, <2>8, <2>9
<1>8. policies' \in Policies
  BY <1>6, <1>7 DEF Collection!ObserveIncidents, Policies
<1>9. observed' \in [ServerScopes -> [Levels -> Int]]
  BY <1>6, <1>7
<1> QED
  BY <1>7, <1>8, <1>9 DEF LevelsInv, LevelsAt, Policies

LEMMA RunKeepsIncidents ==
  ASSUME \A i \in incidents : Grounds(i, stored), stored \subseteq stored', View(stored'),
         RunPipeline(stored')
  PROVE  \A i \in incidents' : Grounds(i, stored')
<1>1. PICK F : F = Incident!Correlate(Behavior!Derive(stored'))
  OBVIOUS
<1>2. incidents' = Replaced(incidents, F)
  BY <1>1 DEF RunPipeline
<1>3. incidents' \subseteq incidents \union F
  BY <1>2 DEF Replaced
<1>4. \A i \in F : Grounds(i, stored')
  BY <1>1, CorrelatedGrounds
<1>5. \A i \in incidents : Grounds(i, stored')
  BY GroundsKept
<1> QED
  BY <1>3, <1>4, <1>5

LEMMA PipelineSteps == PipelineInv /\ [PipelineNext]_pipelineVars => PipelineInv'
<1> SUFFICES ASSUME PipelineInv, [PipelineNext]_pipelineVars PROVE PipelineInv'
  OBVIOUS
<1>1. ASSUME NEW batch \in Batches, IngestMany(batch) PROVE PipelineInv'
  <2>1. stored' = stored \union batch /\ RunPipeline(stored') /\ uptime' = uptime
    BY <1>1 DEF IngestMany
  <2>2. View(stored')
    BY <2>1, FS_Union, PipelineAssumption DEF PipelineInv, View
  <2>3. LevelsInv'
    BY <2>1, <2>2, RunKeepsLevels DEF PipelineInv
  <2>4. \A i \in incidents' : Grounds(i, stored')
    BY <2>1, <2>2, RunKeepsIncidents DEF PipelineInv
  <2> QED
    BY <2>2, <2>3, <2>4 DEF PipelineInv, View, Grounds
<1>2. CASE Reset
  <2>1. /\ stored' = {} /\ incidents' = {} /\ uptime' \in Nat
        /\ policies' = Collection!NoPolicies
        /\ observed' = [s \in ServerScopes |-> [l \in Levels |-> Never]]
    BY <1>2 DEF Reset, PipelineInv, LevelsInv, LevelsAt
  <2>2. LevelsInv'
    BY <2>1, BlankLevels DEF LevelsInv
  <2> QED
    BY <2>1, <2>2, EmptyView DEF PipelineInv, View, Grounds
<1>3. CASE PipelineTick
  <2>1. /\ stored' = stored /\ incidents' = incidents /\ policies' = policies
        /\ observed' = observed /\ uptime' = uptime + 1 /\ uptime \in Nat
    BY <1>3 DEF PipelineTick, PipelineInv, LevelsInv, LevelsAt
  <2>2. ASSUME NEW s \in ServerScopes PROVE Timed(policies'[s], observed'[s], uptime')
    <3>1. Timed(policies[s], observed[s], uptime) /\ observed[s]["INVESTIGATION"] \in Int
      BY DEF PipelineInv, LevelsInv, LevelsAt, Levels
    <3> QED
      BY <2>1, <3>1, PipelineAssumption DEF Timed
  <2>3. LevelsInv'
    BY <2>1, <2>2 DEF PipelineInv, LevelsInv, LevelsAt, Policies
  <2> QED
    BY <2>1, <2>3 DEF PipelineInv, View, Grounds
<1>4. CASE UNCHANGED pipelineVars
  BY <1>4 DEF pipelineVars, PipelineInv, LevelsInv, LevelsAt, Policies, Timed, View, Grounds
<1> QED
  BY <1>1, <1>2, <1>3, <1>4 DEF PipelineNext

LEMMA PipelineAlways == PipelineSpec => []PipelineInv
BY PipelineStarts, PipelineSteps, PTL DEF PipelineSpec

\* The levels follow the findings and end with their windows.
THEOREM ServerLevelsTimely == PipelineSpec => []LevelsTimely
<1>1. PipelineInv => LevelsTimely
  <2> SUFFICES ASSUME PipelineInv, NEW s \in ServerScopes
               PROVE  /\ Collection!Listed(policies, s, uptime) = "INVESTIGATION"
                           <=> CalledFor(s, "INVESTIGATION")
                      /\ Collection!Listed(policies, s, uptime) = "WATCH" => CalledFor(s, "WATCH")
    BY DEF LevelsTimely
  <2>1. PICK p, a : p = policies[s] /\ a = observed[s]
    OBVIOUS
  <2>2. /\ p \in [level : Level, expires : Int] /\ Timed(p, a, uptime) /\ uptime \in Int
        /\ a["WATCH"] \in Int /\ a["INVESTIGATION"] \in Int /\ InvestigationWindow \in Int
    BY <2>1, PipelineAssumption DEF PipelineInv, LevelsInv, LevelsAt, Policies, Levels
  <2>3. /\ Collection!Listed(policies, s, uptime) = IF p.expires < uptime THEN "NORMAL" ELSE p.level
        /\ \A l : CalledFor(s, l) <=> a[l] + InvestigationWindow >= uptime
    BY <2>1 DEF Collection!Listed, Collection!Over, CalledFor
  <2> QED
    BY <2>2, <2>3 DEF Timed, Level
<1> QED
  BY <1>1, PipelineAlways, PTL

\* Every incident holds the evidence of its pattern.
THEOREM ServerIncidentsJustified == PipelineSpec => []IncidentsJustified
<1>1. PipelineInv => IncidentsJustified
  BY DEF PipelineInv, IncidentsJustified, Grounds, Chain
<1> QED
  BY <1>1, PipelineAlways, PTL
=============================================================================
