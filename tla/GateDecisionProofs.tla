------------------------- MODULE GateDecisionProofs -------------------------
(***************************************************************************)
(* What an exit code of the gate means, whatever is committed, measured    *)
(* and certified, and which scores fail a candidate.                       *)
(***************************************************************************)
EXTENDS GateDecision, FiniteSetTheorems, WellFoundedInduction, TLAPS

\* Everything that can end an invocation without a verdict.
Causes == MeasurementErrors \cup Tracebacks

\* What was found is of its type, and so are the functions on candidates.
Found ==
    /\ \A c \in Candidates : store[c] \in BaselinesOf[c]
    /\ certificate \in Certificates
    /\ DOMAIN run = Candidates
    /\ cause \in Causes \cup {"none"}

\* Steps come in their order, candidate a before candidate b.
InOrder ==
    /\ pc \in {"certificate", "tracing", "baselines"} \/ (pc = "runs" /\ turn = "a") =>
        ~runsRoot /\ \A c \in Candidates : run[c] = NotRun
    /\ pc = "runs" /\ turn = "b" => runsRoot /\ run["a"] # NotRun
    /\ pc \in {"decision", "summary"} => runsRoot /\ \A c \in Candidates : run[c] # NotRun
    /\ pc \notin {"decision", "summary", "done"} => \A c \in Candidates : verdict[c] = "none"
    /\ pc = "decision" /\ turn = "b" => verdict["a"] # "none"
    /\ pc = "summary" => \A c \in Candidates : verdict[c] # "none"

\* Only a measured candidate that can be compared has a verdict.
Earned == \A c \in Candidates :
    verdict[c] # "none" => run[c] # NotRun /\ ProblemOf(c) = "none"

\* How the invocation ended, if it has ended.
Ending ==
    /\ pc # "done" => exit = NoExit /\ cause = "none"
    /\ pc = "done" /\ cause # "none" => exit = ExitOf(cause)
    /\ pc = "done" /\ cause = "none" =>
        /\ \A c \in Candidates : verdict[c] # "none"
        /\ exit = IF \E c \in Candidates : verdict[c] = "fail" THEN 1 ELSE 0
        /\ runsRoot = keepRuns
    /\ pc = "done" /\ cause # "none" /\ (\E c \in Candidates : run[c] # NotRun) => runsRoot
    /\ pc = "done" /\ cause = "RunAborted" => runsRoot

IInv == TypeOK /\ Found /\ InOrder /\ Earned /\ Ending /\ keepRuns \in BOOLEAN

-----------------------------------------------------------------------------
(* Lemmas on the parts of a step *)

\* A run is told from a candidate that has not been run.
LEMMA RunIsARun ==
    ASSUME NEW c \in Candidates, NEW artifact \in RunsOf[c]
    PROVE  artifact # NotRun
<1>1. artifact.state = "whole" /\ NotRun.state = "not run"
  BY GateAssumption DEF NotRun
<1> QED
  BY <1>1

\* A committed file is in one of three states.
LEMMA StoreState ==
    ASSUME Found, NEW c \in Candidates
    PROVE  store[c].state \in {"absent", "unreadable", "whole"}
BY GateAssumption DEF Found, Absent, Unreadable

\* The checks of a candidate end in one of their exceptions or in none.
LEMMA ProblemType ==
    ASSUME NEW c \in Candidates
    PROVE  ProblemOf(c) \in Causes \cup {"none"}
BY DEF ProblemOf, Problem, Causes, MeasurementErrors, Tracebacks

\* A candidate gets one of two verdicts.
LEMMA VerdictType ==
    ASSUME NEW c \in Candidates
    PROVE  Verdict(store[c], run[c], ModeOf(certificate)) \in {"pass", "fail"}
BY DEF Verdict

\* Whatever is raised ends in exit code 1 or 2.
LEMMA ExitType ==
    ASSUME NEW exception
    PROVE  ExitOf(exception) \in {1, 2}
BY DEF ExitOf

\* Raising an exception from any step but the last keeps the invariant.
LEMMA RaiseKeepsIInv ==
    ASSUME IInv, pc # "done", NEW exception \in Causes \ {"RunAborted"},
           Raise(exception), UNCHANGED run
    PROVE  IInv'
<1> USE DEF IInv, Raise, given
<1>1. exception # "none"
  BY DEF Causes, MeasurementErrors, Tracebacks
<1>2. TypeOK'
  BY ExitType DEF TypeOK
<1>3. Found'
  BY DEF Found
<1>4. InOrder'
  BY DEF InOrder
<1>5. Earned'
  BY DEF Earned, ProblemOf
<1>6. Ending'
  <2>1. exit' = ExitOf(cause') /\ cause' # "none" /\ pc' = "done"
    BY <1>1
  <2>2. (\E c \in Candidates : run[c] # NotRun) => runsRoot
    BY DEF InOrder, TypeOK, Candidates
  <2> QED
    BY <2>1, <2>2 DEF Ending
<1> QED
  BY <1>2, <1>3, <1>4, <1>5, <1>6

\* The invariant does not depend on what else happens when no variable changes.
LEMMA StutterKeepsIInv ==
    ASSUME IInv, UNCHANGED vars
    PROVE  IInv'
BY DEF IInv, TypeOK, Found, InOrder, Earned, ProblemOf, Ending, vars, given

\* A measurement that raises keeps the invariant.
LEMMA RunEndsKeepsIInv ==
    ASSUME IInv, NEW exception \in {"RunAborted", "OSError"}, RunEnds(exception)
    PROVE  IInv'
<1> USE DEF IInv, RunEnds, given
<1>1. exception \in Causes /\ exception # "none"
  BY DEF Causes, MeasurementErrors, Tracebacks
<1>2. TypeOK'
  BY ExitType DEF TypeOK
<1>3. Found' /\ InOrder' /\ Earned'
  BY <1>1 DEF Found, InOrder, Earned, ProblemOf
<1>4. Ending'
  BY <1>1 DEF Ending
<1> QED
  BY <1>2, <1>3, <1>4

\* A measurement that completes keeps the invariant.
LEMMA RunCompletesKeepsIInv ==
    ASSUME IInv, NEW artifact \in RunsOf[turn], RunCompletes(artifact)
    PROVE  IInv'
<1> USE DEF IInv, RunCompletes, Advance, given
<1>1. turn \in Candidates /\ artifact # NotRun
  BY RunIsARun DEF TypeOK
<1>2. /\ run' = [run EXCEPT ![turn] = artifact] /\ DOMAIN run = Candidates
      /\ run'[turn] = artifact
      /\ \A c \in Candidates : c # turn => run'[c] = run[c]
  BY <1>1 DEF Found
<1>3. TypeOK'
  BY <1>1, <1>2 DEF TypeOK, Candidates
<1>4. Found'
  BY <1>2 DEF Found
<1>5. InOrder'
  BY <1>1, <1>2 DEF InOrder, Candidates, TypeOK
<1>6. Earned'
  <2>1. \A c \in Candidates : verdict[c] = "none"
    BY DEF InOrder
  <2> QED
    BY <2>1 DEF Earned
<1>7. Ending'
  BY DEF Ending
<1> QED
  BY <1>3, <1>4, <1>5, <1>6, <1>7

\* A decision keeps the invariant.
LEMMA DecideKeepsIInv ==
    ASSUME IInv, Decide
    PROVE  IInv'
<1> USE DEF IInv, given
<1>1. pc = "decision" /\ turn \in Candidates /\ UNCHANGED run
  BY DEF Decide, TypeOK
<1>2. CASE ProblemOf(turn) # "none" /\ Raise(ProblemOf(turn))
  <2>1. ProblemOf(turn) \in Causes \ {"RunAborted"}
    BY <1>1, <1>2, ProblemType DEF ProblemOf, Problem
  <2> QED
    BY <1>1, <1>2, <2>1, RaiseKeepsIInv
<1>3. CASE /\ ProblemOf(turn) = "none"
           /\ verdict' = [verdict EXCEPT ![turn] =
                 Verdict(store[turn], run[turn], ModeOf(certificate))]
           /\ Advance("summary")
           /\ UNCHANGED runsRoot
  <2> USE <1>1, <1>3 DEF Advance
  <2>1. verdict \in [Candidates -> {"none", "pass", "fail"}]
    BY DEF TypeOK
  <2>2. /\ verdict'[turn] \in {"pass", "fail"}
        /\ \A c \in Candidates : c # turn => verdict'[c] = verdict[c]
        /\ verdict' \in [Candidates -> {"none", "pass", "fail"}]
    BY <2>1, VerdictType
  <2>3. TypeOK'
    BY <2>2 DEF TypeOK, Candidates
  <2>4. Found'
    BY DEF Found
  <2>5. InOrder'
    BY <2>2 DEF InOrder, Candidates
  <2>6. Earned'
    BY <2>2 DEF Earned, ProblemOf, InOrder
  <2>7. Ending'
    BY DEF Ending
  <2> QED
    BY <2>3, <2>4, <2>5, <2>6, <2>7
<1> QED
  BY <1>2, <1>3 DEF Decide

\* The end of an invocation with a verdict keeps the invariant.
LEMMA FinishKeepsIInv ==
    ASSUME IInv, Finish
    PROVE  IInv'
<1> USE DEF IInv, Finish, given
<1>1. TypeOK'
  BY DEF TypeOK
<1>2. Found' /\ InOrder' /\ Earned'
  BY DEF Found, InOrder, Earned, ProblemOf
<1>3. Ending'
  BY DEF Ending, InOrder
<1> QED
  BY <1>1, <1>2, <1>3

\* So do the steps before the measurement.
LEMMA PreconditionKeepsIInv ==
    ASSUME IInv,
           SetupRaises \/ CheckCertificate \/ StartTracing \/ TracingMissing
                \/ LoadBaseline \/ ClientMissing
    PROVE  IInv'
<1>0. {"InvalidInput", "MissingCertificate", "MissingTracing", "MissingBaseline",
       "BaselineFormat", "MissingApiKey"} \subseteq Causes \ {"RunAborted"}
  BY DEF Causes, MeasurementErrors, Tracebacks
<1>1. CASE SetupRaises
  BY <1>0, <1>1, RaiseKeepsIInv DEF SetupRaises
<1>2. CASE CheckCertificate
  <2>1. CASE certificate = "none"
    BY <1>0, <1>2, <2>1, RaiseKeepsIInv DEF CheckCertificate
  <2>2. CASE certificate # "none"
    BY <1>2, <2>2 DEF CheckCertificate, IInv, TypeOK, Found, InOrder, Earned, ProblemOf, Ending,
       given
  <2> QED
    BY <2>1, <2>2
<1>3. CASE StartTracing
  BY <1>3 DEF StartTracing, IInv, TypeOK, Found, InOrder, Earned, ProblemOf, Ending, given
<1>4. CASE TracingMissing
  BY <1>0, <1>4, RaiseKeepsIInv DEF TracingMissing
<1>5. CASE LoadBaseline
  <2>1. turn \in Candidates
    BY DEF IInv, TypeOK
  <2>2. \/ Raise("MissingBaseline") \/ Raise("BaselineFormat")
        \/ Advance("runs") /\ UNCHANGED <<verdict, runsRoot>>
    BY <1>5, <2>1, StoreState DEF LoadBaseline, IInv
  <2>3. CASE Raise("MissingBaseline") \/ Raise("BaselineFormat")
    BY <1>0, <1>5, <2>3, RaiseKeepsIInv DEF LoadBaseline
  <2>4. CASE Advance("runs") /\ UNCHANGED <<verdict, runsRoot>>
    BY <1>5, <2>1, <2>4
    DEF LoadBaseline, Advance, IInv, TypeOK, Found, InOrder, Earned, ProblemOf, Ending,
        given, Candidates
  <2> QED
    BY <2>2, <2>3, <2>4
<1>6. CASE ClientMissing
  BY <1>0, <1>6, RaiseKeepsIInv DEF ClientMissing
<1> QED
  BY <1>1, <1>2, <1>3, <1>4, <1>5, <1>6

-----------------------------------------------------------------------------
(* The invariant *)

LEMMA InitIInv == Init => IInv
<1> SUFFICES ASSUME Init PROVE IInv
  OBVIOUS
<1>1. TypeOK
  BY DEF Init, TypeOK, Candidates, NoExit
<1>2. Found /\ InOrder /\ Earned /\ Ending /\ keepRuns \in BOOLEAN
  BY DEF Init, Found, InOrder, Earned, Ending, Candidates
<1> QED
  BY <1>1, <1>2 DEF IInv

LEMMA NextIInv == IInv /\ [Next]_vars => IInv'
BY StutterKeepsIInv, PreconditionKeepsIInv, RunEndsKeepsIInv, RunCompletesKeepsIInv,
   DecideKeepsIInv, FinishKeepsIInv DEF Next

\* An invocation is always in a state of which IInv says how it came about.
LEMMA Invariance == Spec => []IInv
BY InitIInv, NextIInv, PTL DEF Spec

-----------------------------------------------------------------------------
(* Sums over finite sets *)

\* What SumFunctionOnSet takes next from a set of indices.
Taken(s) == CHOOSE x \in s : TRUE

\* ... which is one of them.
LEMMA TakenIsIn == ASSUME NEW s, s # {} PROVE Taken(s) \in s
<1>1. PICK x : x \in s
  OBVIOUS
<1> QED
  BY <1>1 DEF Taken

\* The recursive function by which SumFunctionOnSet is defined.
Sums(fun, S) ==
    CHOOSE g : g = [s \in SUBSET S |-> IF s = {} THEN 0
                                       ELSE fun[Taken(s)] + g[s \ {Taken(s)}]]

\* A sum is what that function gives for the whole set.
LEMMA SumIsRecursive ==
    ASSUME NEW fun, NEW S
    PROVE  SumFunctionOnSet(fun, S) = Sums(fun, S)[S]
BY DEF SumFunctionOnSet, FoldFunctionOnSet, MapThenFoldSet, Sums, Taken

\* Induction on the naturals, for a set of them.
LEMMA NatSetInduction ==
    ASSUME NEW T \in SUBSET Nat, 0 \in T, \A n \in T : n + 1 \in T
    PROVE  T = Nat
<1> DEFINE R    == OpToRel(<, Nat)
           Rest == Nat \ T
<1> SUFFICES ASSUME Rest # {} PROVE FALSE
  OBVIOUS
<1>1. \E n \in Rest : \A m \in Rest : <<m, n>> \notin R
  <2>1. Rest \subseteq Nat /\ IsWellFoundedOn(R, Nat)
    BY NatLessThanWellFounded
  <2> HIDE DEF R, Rest
  <2> QED
    BY <2>1, WFMin
<1>2. PICK n \in Rest : \A m \in Rest : <<m, n>> \notin R
  BY <1>1
<1>3. n - 1 \in Rest
  OBVIOUS
<1>4. <<n - 1, n>> \in R
  BY <1>3 DEF OpToRel
<1> QED
  BY <1>2, <1>3, <1>4

\* Induction on the subsets of a finite set, in the order SumFunctionOnSet goes.
LEMMA SubsetInduction ==
    ASSUME NEW S, IsFiniteSet(S), NEW G \in SUBSET SUBSET S, {} \in G,
           \A s \in SUBSET S : s # {} /\ s \ {Taken(s)} \in G => s \in G
    PROVE  G = SUBSET S
<1> DEFINE R == StrictSubsetOrdering(S)
           Rest == (SUBSET S) \ G
<1> SUFFICES ASSUME Rest # {} PROVE FALSE
  OBVIOUS
<1>1. Rest \subseteq FiniteSubsetsOf(S) /\ IsWellFoundedOn(R, FiniteSubsetsOf(S))
  BY FS_FiniteSubsetsOfFinite, FS_StrictSubsetOrderingWellFounded
<1>2. \E s \in Rest : \A t \in Rest : <<t, s>> \notin R
  <2> HIDE DEF R, Rest
  <2> QED
    BY <1>1, WFMin
<1>3. PICK s \in Rest : \A t \in Rest : <<t, s>> \notin R
  BY <1>2
<1>4. s # {} /\ Taken(s) \in s
  BY TakenIsIn
<1>5. <<s \ {Taken(s)}, s>> \in R
  BY <1>4 DEF StrictSubsetOrdering
<1>6. s \ {Taken(s)} \in G
  BY <1>3, <1>5
<1> QED
  BY <1>4, <1>6

\* There is such a function for every finite set.
LEMMA SumsExist ==
    ASSUME NEW fun, NEW S, IsFiniteSet(S)
    PROVE  \A s \in SUBSET S : Sums(fun, S)[s] =
              IF s = {} THEN 0 ELSE fun[Taken(s)] + Sums(fun, S)[s \ {Taken(s)}]
<1> DEFINE Full(g)   == g = [s \in SUBSET S |-> IF s = {} THEN 0
                                ELSE fun[Taken(s)] + g[s \ {Taken(s)}]]
           UpTo(n)   == {s \in SUBSET S : Cardinality(s) <= n}
           IsSum(g, n) == g = [s \in UpTo(n) |-> IF s = {} THEN 0
                                ELSE fun[Taken(s)] + g[s \ {Taken(s)}]]
           T         == {n \in Nat : \E g : IsSum(g, n)}
<1>0. \A s \in SUBSET S : IsFiniteSet(s) /\ Cardinality(s) \in Nat
  BY FS_Subset, FS_CardinalityType
<1>1. 0 \in T
  <2>1. UpTo(0) = {{}}
    BY <1>0, FS_EmptySet
  <2>2. IsSum([s \in {{}} |-> 0], 0)
    BY <2>1
  <2> QED
    BY <2>2
<1>2. ASSUME NEW n \in T PROVE n + 1 \in T
  <2>1. PICK g : IsSum(g, n)
    OBVIOUS
  <2> DEFINE h == [s \in UpTo(n + 1) |-> IF s = {} THEN 0 ELSE fun[Taken(s)] + g[s \ {Taken(s)}]]
  <2>2. ASSUME NEW s \in UpTo(n + 1), s # {}
        PROVE  s \ {Taken(s)} \in UpTo(n)
    BY <1>0, <2>2, TakenIsIn, FS_RemoveElement
  <2>3. \A s \in UpTo(n) : s \in UpTo(n + 1)
    BY <1>0
  <2>4. \A s \in UpTo(n) : h[s] = g[s]
    BY <2>1, <2>3
  <2>5. IsSum(h, n + 1)
    BY <2>2, <2>4
  <2>6. \E g1 : IsSum(g1, n + 1)
    <3> HIDE DEF h, IsSum
    <3> QED
      BY <2>5
  <2>7. n + 1 \in Nat
    OBVIOUS
  <2> HIDE DEF IsSum
  <2> QED
    BY <2>6, <2>7
<1>3. T = Nat
  <2> HIDE DEF T
  <2> QED
    BY <1>1, <1>2, NatSetInduction, T \subseteq Nat DEF T
<1>4. Cardinality(S) \in Nat /\ UpTo(Cardinality(S)) = SUBSET S
  BY <1>0, FS_Subset
<1>5. \E g : Full(g)
  <2>1. Cardinality(S) \in T
    BY <1>3, <1>4
  <2>2. PICK g : IsSum(g, Cardinality(S))
    BY <2>1
  <2> QED
    BY <1>4, <2>2
<1>6. Full(Sums(fun, S))
  BY <1>5, Zenon DEF Sums
<1>7. ASSUME NEW g, Full(g), NEW s \in SUBSET S
      PROVE  g[s] = IF s = {} THEN 0 ELSE fun[Taken(s)] + g[s \ {Taken(s)}]
  BY <1>7
<1> HIDE DEF Full
<1> QED
  BY <1>6, <1>7

\* Sums of functions that agree on a set agree on its subsets, whatever larger
\* sets they are taken from.
LEMMA SumsAgree ==
    ASSUME NEW f, NEW g, NEW S, NEW U, IsFiniteSet(S), U \subseteq S,
           \A x \in U : f[x] = g[x]
    PROVE  \A s \in SUBSET U : Sums(f, S)[s] = Sums(g, U)[s]
<1> DEFINE G == {s \in SUBSET U : Sums(f, S)[s] = Sums(g, U)[s]}
<1>0. IsFiniteSet(U) /\ SUBSET U \subseteq SUBSET S
  BY FS_Subset
<1>a. \A s \in SUBSET S : Sums(f, S)[s] = IF s = {} THEN 0
                            ELSE f[Taken(s)] + Sums(f, S)[s \ {Taken(s)}]
  BY SumsExist
<1>b. \A s \in SUBSET U : Sums(g, U)[s] = IF s = {} THEN 0
                            ELSE g[Taken(s)] + Sums(g, U)[s \ {Taken(s)}]
  <2>1. IsFiniteSet(U)
    BY <1>0
  <2> QED
    BY <2>1, SumsExist
<1>1. {} \in G
  BY <1>a, <1>b
<1>2. ASSUME NEW s \in SUBSET U, s # {}, s \ {Taken(s)} \in G PROVE s \in G
  BY <1>0, <1>a, <1>b, <1>2, TakenIsIn
<1>3. G = SUBSET U
  <2>1. G \in SUBSET SUBSET U
    OBVIOUS
  <2> HIDE DEF G
  <2> QED
    BY <1>0, <1>1, <1>2, <2>1, SubsetInduction
<1> QED
  BY <1>3

\* Nothing adds up to 0.
LEMMA SumOfNone == ASSUME NEW fun PROVE SumFunctionOnSet(fun, {}) = 0
<1>1. IsFiniteSet({}) /\ {} \in SUBSET {}
  BY FS_EmptySet
<1>2. Sums(fun, {})[{}] = 0
  BY <1>1, SumsExist
<1> QED
  BY <1>2, SumIsRecursive

\* The sum of a nonempty set is that of the element taken first and of the others.
LEMMA SumStep ==
    ASSUME NEW fun, NEW S, IsFiniteSet(S), S # {}
    PROVE  SumFunctionOnSet(fun, S) = fun[Taken(S)] + SumFunctionOnSet(fun, S \ {Taken(S)})
<1>1. Sums(fun, S)[S] = fun[Taken(S)] + Sums(fun, S)[S \ {Taken(S)}]
  BY SumsExist, S \in SUBSET S
<1>2. Sums(fun, S)[S \ {Taken(S)}] = Sums(fun, S \ {Taken(S)})[S \ {Taken(S)}]
  BY SumsAgree
<1> QED
  BY <1>1, <1>2, SumIsRecursive

\* The sum depends on nothing but the values summed.
LEMMA SumExtensional ==
    ASSUME NEW f, NEW g, NEW S, IsFiniteSet(S), \A x \in S : f[x] = g[x]
    PROVE  SumFunctionOnSet(f, S) = SumFunctionOnSet(g, S)
BY SumsAgree, SumIsRecursive

\* Integers add up to an integer.
LEMMA SumType ==
    ASSUME NEW f, NEW S, IsFiniteSet(S), \A x \in S : f[x] \in Int
    PROVE  SumFunctionOnSet(f, S) \in Int
<1> DEFINE G == {s \in SUBSET S : SumFunctionOnSet(f, s) \in Int}
<1>1. {} \in G
  BY SumOfNone
<1>2. ASSUME NEW s \in SUBSET S, s # {}, s \ {Taken(s)} \in G PROVE s \in G
  <2>1. IsFiniteSet(s) /\ Taken(s) \in S
    BY <1>2, FS_Subset, TakenIsIn
  <2>2. SumFunctionOnSet(f, s) = f[Taken(s)] + SumFunctionOnSet(f, s \ {Taken(s)})
    BY <1>2, <2>1, SumStep
  <2> QED
    BY <1>2, <2>1, <2>2
<1>3. G = SUBSET S
  <2>1. G \in SUBSET SUBSET S
    OBVIOUS
  <2> HIDE DEF G
  <2> QED
    BY <1>1, <1>2, <2>1, SubsetInduction
<1> QED
  BY <1>3

\* The sum of the sums of two functions.
LEMMA SumAdds ==
    ASSUME NEW f, NEW g, NEW h, NEW S, IsFiniteSet(S),
           \A x \in S : f[x] \in Int /\ g[x] \in Int /\ h[x] = f[x] + g[x]
    PROVE  SumFunctionOnSet(h, S) = SumFunctionOnSet(f, S) + SumFunctionOnSet(g, S)
<1> DEFINE G == {s \in SUBSET S :
                    SumFunctionOnSet(h, s) = SumFunctionOnSet(f, s) + SumFunctionOnSet(g, s)}
<1>1. {} \in G
  BY SumOfNone
<1>2. ASSUME NEW s \in SUBSET S, s # {}, s \ {Taken(s)} \in G PROVE s \in G
  <2> DEFINE rest == s \ {Taken(s)}
  <2>0. IsFiniteSet(s) /\ Taken(s) \in S
    BY <1>2, FS_Subset, TakenIsIn
  <2>1. /\ Taken(s) \in S
        /\ SumFunctionOnSet(f, s) = f[Taken(s)] + SumFunctionOnSet(f, rest)
        /\ SumFunctionOnSet(g, s) = g[Taken(s)] + SumFunctionOnSet(g, rest)
        /\ SumFunctionOnSet(h, s) = h[Taken(s)] + SumFunctionOnSet(h, rest)
    BY <1>2, <2>0, SumStep
  <2>2. SumFunctionOnSet(f, rest) \in Int /\ SumFunctionOnSet(g, rest) \in Int
    BY SumType, FS_Subset
  <2> QED
    BY <1>2, <2>1, <2>2
<1>3. G = SUBSET S
  <2>1. G \in SUBSET SUBSET S
    OBVIOUS
  <2> HIDE DEF G
  <2> QED
    BY <1>1, <1>2, <2>1, SubsetInduction
<1> QED
  BY <1>3

\* Larger values have a larger sum.
LEMMA SumIsMonotone ==
    ASSUME NEW f, NEW g, NEW S, IsFiniteSet(S),
           \A x \in S : f[x] \in Int /\ g[x] \in Int /\ f[x] <= g[x]
    PROVE  SumFunctionOnSet(f, S) <= SumFunctionOnSet(g, S)
<1> DEFINE G == {s \in SUBSET S : SumFunctionOnSet(f, s) <= SumFunctionOnSet(g, s)}
<1>1. {} \in G
  BY SumOfNone
<1>2. ASSUME NEW s \in SUBSET S, s # {}, s \ {Taken(s)} \in G PROVE s \in G
  <2> DEFINE rest == s \ {Taken(s)}
  <2>0. IsFiniteSet(s) /\ Taken(s) \in S
    BY <1>2, FS_Subset, TakenIsIn
  <2>1. /\ Taken(s) \in S
        /\ SumFunctionOnSet(f, s) = f[Taken(s)] + SumFunctionOnSet(f, rest)
        /\ SumFunctionOnSet(g, s) = g[Taken(s)] + SumFunctionOnSet(g, rest)
    BY <1>2, <2>0, SumStep
  <2>2. SumFunctionOnSet(f, rest) \in Int /\ SumFunctionOnSet(g, rest) \in Int
    BY SumType, FS_Subset
  <2> QED
    BY <1>2, <2>1, <2>2
<1>3. G = SUBSET S
  <2>1. G \in SUBSET SUBSET S
    OBVIOUS
  <2> HIDE DEF G
  <2> QED
    BY <1>1, <1>2, <2>1, SubsetInduction
<1> QED
  BY <1>3

\* The sum of a constant.
LEMMA SumOfConstant ==
    ASSUME NEW f, NEW S, IsFiniteSet(S), NEW c \in Int, \A x \in S : f[x] = c
    PROVE  SumFunctionOnSet(f, S) = Cardinality(S) * c
<1> DEFINE G == {s \in SUBSET S : SumFunctionOnSet(f, s) = Cardinality(s) * c}
<1>1. {} \in G
  BY SumOfNone, FS_EmptySet
<1>2. ASSUME NEW s \in SUBSET S, s # {}, s \ {Taken(s)} \in G PROVE s \in G
  <2>1. IsFiniteSet(s) /\ Cardinality(s) \in Nat
    BY FS_Subset, FS_CardinalityType
  <2>2. Cardinality(s \ {Taken(s)}) = Cardinality(s) - 1
    BY <1>2, <2>1, TakenIsIn, FS_RemoveElement
  <2>3. SumFunctionOnSet(f, s \ {Taken(s)}) = (Cardinality(s) - 1) * c
    BY <1>2, <2>2
  <2>4. f[Taken(s)] = c
    BY <1>2, TakenIsIn
  <2>5. SumFunctionOnSet(f, s) = f[Taken(s)] + SumFunctionOnSet(f, s \ {Taken(s)})
    BY <1>2, <2>1, SumStep
  <2>6. c + (Cardinality(s) - 1) * c = Cardinality(s) * c
    BY <2>1
  <2> QED
    BY <2>3, <2>4, <2>5, <2>6
<1>3. G = SUBSET S
  <2>1. G \in SUBSET SUBSET S
    OBVIOUS
  <2> HIDE DEF G
  <2> QED
    BY <1>1, <1>2, <2>1, SubsetInduction
<1> QED
  BY <1>3

-----------------------------------------------------------------------------
(* The sign-flip test *)

\* Flipping no sign leaves the mean as it is, so the p-value is never 0.
LEMMA SomethingIsExtreme ==
    ASSUME NEW D, IsFiniteSet(D), NEW d \in [D -> Int]
    PROVE  IsFiniteSet(Extreme(d)) /\ Cardinality(Extreme(d)) \in Nat \ {0}
<1>1. {} \in Extreme(d)
  <2>1. DOMAIN d = D /\ DOMAIN Flip(d, {}) = D /\ \A i \in D : Flip(d, {})[i] = d[i]
    BY DEF Flip
  <2>2. SumFunctionOnSet(Flip(d, {}), D) = SumFunctionOnSet(d, D)
    BY <2>1, SumExtensional
  <2>3. SumFunctionOnSet(d, D) \in Int
    BY SumType
  <2>4. SumFunction(Flip(d, {})) <= SumFunction(d)
    BY <2>1, <2>2, <2>3 DEF SumFunction
  <2> QED
    BY <2>4 DEF Extreme
<1>2. IsFiniteSet(Extreme(d))
  <2>1. IsFiniteSet(Nonzero(d)) /\ Extreme(d) \subseteq SUBSET Nonzero(d)
    BY FS_Subset DEF Nonzero, Extreme
  <2> QED
    BY <2>1, FS_SUBSET, FS_Subset
<1> QED
  BY <1>1, <1>2, FS_CardinalityType, FS_EmptySet

\* The subsets of D whose part in N is in X.
With(D, N, X) == {F \in SUBSET D : F \cap N \in X}

\* There is one of them for each member of X and each subset of the rest of D.
LEMMA FreeRest ==
    ASSUME NEW D, IsFiniteSet(D), NEW N \in SUBSET D, NEW X \in SUBSET SUBSET N
    PROVE  /\ IsFiniteSet(With(D, N, X))
           /\ Cardinality(With(D, N, X)) = Cardinality(X) * Cardinality(SUBSET (D \ N))
<1> DEFINE all == With(D, N, X)
           Y   == SUBSET (D \ N)
           f   == [p \in X \X Y |-> p[1] \cup p[2]]
<1>1. IsFiniteSet(X) /\ IsFiniteSet(Y)
  <2>1. IsFiniteSet(N) /\ IsFiniteSet(D \ N)
    BY FS_Subset
  <2>2. IsFiniteSet(SUBSET N) /\ IsFiniteSet(Y)
    BY <2>1, FS_SUBSET
  <2> QED
    BY <2>2, FS_Subset
<1>2. f \in [X \X Y -> all]
  <2> SUFFICES ASSUME NEW p \in X \X Y PROVE p[1] \cup p[2] \in all
    OBVIOUS
  <2>1. (p[1] \cup p[2]) \cap N = p[1] /\ p[1] \in X /\ p[2] \in Y
    OBVIOUS
  <2> QED
    BY <2>1 DEF With
<1>3. \A F \in all : \E p \in X \X Y : f[p] = F
  <2> SUFFICES ASSUME NEW F \in all PROVE \E p \in X \X Y : f[p] = F
    OBVIOUS
  <2>1. <<F \cap N, F \ N>> \in X \X Y /\ (F \cap N) \cup (F \ N) = F
    BY DEF With
  <2> QED
    BY <2>1
<1>4. \A p, q \in X \X Y : f[p] = f[q] => p = q
  <2> SUFFICES ASSUME NEW x \in X, NEW y \in Y, NEW u \in X, NEW v \in Y, x \cup y = u \cup v
               PROVE  x = u /\ y = v
    OBVIOUS
  <2>1. x = (x \cup y) \cap N /\ u = (u \cup v) \cap N
    OBVIOUS
  <2>2. y = (x \cup y) \ N /\ v = (u \cup v) \ N
    OBVIOUS
  <2> QED
    BY <2>1, <2>2
<1>5. ExistsBijection(X \X Y, all)
  <2> HIDE DEF f, all, Y
  <2>1. f \in Injection(X \X Y, all)
    BY <1>2, <1>4 DEF Injection, IsInjective
  <2>2. f \in Surjection(X \X Y, all)
    BY <1>2, <1>3 DEF Surjection
  <2> QED
    BY <2>1, <2>2 DEF ExistsBijection, Bijection
<1>6. IsFiniteSet(X \X Y) /\ Cardinality(X \X Y) = Cardinality(X) * Cardinality(Y)
  BY <1>1, FS_Product
<1>7. IsFiniteSet(all) /\ Cardinality(all) = Cardinality(X \X Y)
  <2> HIDE DEF all, Y
  <2> QED
    BY <1>5, <1>6, FS_Bijection
<1> QED
  BY <1>6, <1>7

\* The sign assignments of all deltas, those that are 0 included.
ExtremeOfAll(d) ==
    {F \in SUBSET DOMAIN d : SumFunction(Flip(d, F)) <= SumFunction(d)}

\* The flips that do not raise the mean, when deltas of 0 may be flipped as well:
\* each of the test's with any set of those.
LEMMA ZerosFlipFreely ==
    ASSUME NEW D, IsFiniteSet(D), NEW d \in [D -> Int]
    PROVE  /\ IsFiniteSet(ExtremeOfAll(d))
           /\ Cardinality(ExtremeOfAll(d)) =
                Cardinality(Extreme(d)) * Cardinality(SUBSET (D \ Nonzero(d)))
<1> DEFINE N   == Nonzero(d)
           all == With(D, N, Extreme(d))
<1>1. N \in SUBSET D /\ Extreme(d) \in SUBSET SUBSET N
  BY DEF Nonzero, Extreme
<1>2. ASSUME NEW F \in SUBSET D
      PROVE  Flip(d, F) = Flip(d, F \cap N)
  <2>1. \A i \in D : i \notin N => -d[i] = d[i]
    BY DEF Nonzero
  <2>2. \A i \in D : (IF i \in F THEN -d[i] ELSE d[i]) = IF i \in F \cap N THEN -d[i] ELSE d[i]
    BY <2>1
  <2> QED
    BY <2>2 DEF Flip
<1>3. ExtremeOfAll(d) = all
  <2>1. ASSUME NEW F \in SUBSET D
        PROVE  F \in ExtremeOfAll(d) <=> F \in all
    BY <1>2 DEF ExtremeOfAll, Extreme, With
  <2> QED
    BY <2>1 DEF ExtremeOfAll, With
<1> HIDE DEF N
<1> QED
  BY <1>1, <1>3, FreeRest DEF N

\* If every delta is at least as large, so many flips do not raise the mean.
LEMMA MoreIsExtreme ==
    ASSUME NEW D, IsFiniteSet(D), NEW d \in [D -> Int], NEW e \in [D -> Int],
           \A i \in D : d[i] <= e[i]
    PROVE  ExtremeOfAll(d) \subseteq ExtremeOfAll(e)
<1> SUFFICES ASSUME NEW F \in ExtremeOfAll(d)
             PROVE  F \in ExtremeOfAll(e)
  OBVIOUS
<1> DEFINE change(h) == [i \in D |-> IF i \in F THEN -2 * h[i] ELSE 0]
<1>1. ASSUME NEW h \in [D -> Int]
      PROVE  /\ SumFunction(Flip(h, F)) = SumFunction(h) + SumFunctionOnSet(change(h), D)
             /\ SumFunction(h) \in Int /\ SumFunctionOnSet(change(h), D) \in Int
  <2>1. DOMAIN h = D /\ DOMAIN Flip(h, F) = D
    BY DEF Flip
  <2>2. \A i \in D : /\ h[i] \in Int /\ change(h)[i] \in Int
                     /\ Flip(h, F)[i] = h[i] + change(h)[i]
    BY DEF Flip
  <2> HIDE DEF change
  <2>3. SumFunctionOnSet(Flip(h, F), D) = SumFunctionOnSet(h, D) + SumFunctionOnSet(change(h), D)
    BY <2>2, SumAdds
  <2>4. SumFunctionOnSet(h, D) \in Int /\ SumFunctionOnSet(change(h), D) \in Int
    BY <2>2, SumType
  <2> QED
    BY <2>1, <2>3, <2>4 DEF SumFunction
<1>2. SumFunctionOnSet(change(d), D) <= 0
  BY <1>1 DEF ExtremeOfAll
<1>3. SumFunctionOnSet(change(e), D) <= SumFunctionOnSet(change(d), D)
  <2>1. \A i \in D : /\ change(e)[i] \in Int /\ change(d)[i] \in Int
                     /\ change(e)[i] <= change(d)[i]
    OBVIOUS
  <2> HIDE DEF change
  <2> QED
    BY <2>1, SumIsMonotone
<1>4. SumFunction(Flip(e, F)) <= SumFunction(e)
  <2> HIDE DEF change
  <2> QED
    BY <1>1, <1>2, <1>3
<1> QED
  BY <1>4 DEF ExtremeOfAll

\* The p-value falls when deltas do: what the test rejects it rejects as well with
\* smaller deltas.
LEMMA RejectionIsMonotone ==
    ASSUME NEW D, IsFiniteSet(D), NEW d \in [D -> Int], NEW e \in [D -> Int],
           \A i \in D : d[i] <= e[i], Rejects(e)
    PROVE  Rejects(d)
<1> DEFINE x(h) == Cardinality(Extreme(h))
           n(h) == Cardinality(SUBSET Nonzero(h))
           z(h) == Cardinality(SUBSET (D \ Nonzero(h)))
<1>1. ASSUME NEW h \in [D -> Int]
      PROVE  /\ x(h) \in Nat /\ n(h) \in Nat /\ z(h) \in Nat \ {0}
             /\ n(h) * z(h) = Cardinality(SUBSET D)
  <2>1. Nonzero(h) \in SUBSET D
    BY DEF Nonzero
  <2>2. With(D, Nonzero(h), SUBSET Nonzero(h)) = SUBSET D
    BY DEF With
  <2>3. Cardinality(SUBSET D) = n(h) * z(h)
    BY <2>1, <2>2, FreeRest
  <2>4. IsFiniteSet(SUBSET Nonzero(h)) /\ IsFiniteSet(SUBSET (D \ Nonzero(h)))
    BY <2>1, FS_Subset, FS_SUBSET
  <2>5. SUBSET (D \ Nonzero(h)) # {}
    OBVIOUS
  <2> QED
    BY <2>3, <2>4, <2>5, SomethingIsExtreme, FS_CardinalityType, FS_EmptySet
<1>2. x(d) * z(d) <= x(e) * z(e)
  <2>1. ExtremeOfAll(d) \subseteq ExtremeOfAll(e)
    BY MoreIsExtreme
  <2>2. Cardinality(ExtremeOfAll(d)) <= Cardinality(ExtremeOfAll(e))
    BY <2>1, ZerosFlipFreely, FS_Subset
  <2> QED
    BY <2>2, ZerosFlipFreely
<1>3. 100 * x(e) < Alpha * n(e) /\ Alpha \in Nat
  BY RulesAssumption DEF Rejects
<1> HIDE DEF x, n, z
<1>4. 100 * (x(e) * z(e)) < Alpha * (n(e) * z(e))
  <2>1. \A p, q \in Nat, r \in Nat \ {0} : p < q => p * r < q * r
    OBVIOUS
  <2>2. (100 * x(e)) * z(e) < (Alpha * n(e)) * z(e)
    BY <1>1, <1>3, <2>1
  <2> QED
    BY <1>1, <1>3, <2>2
<1>5. 100 * (x(d) * z(d)) < Alpha * (n(d) * z(d))
  <2>1. n(d) * z(d) = n(e) * z(e)
    BY <1>1
  <2>2. x(d) * z(d) \in Nat /\ x(e) * z(e) \in Nat
    BY <1>1
  <2>3. 100 * (x(d) * z(d)) <= 100 * (x(e) * z(e))
    BY <1>2, <2>2
  <2>4. Alpha * (n(e) * z(e)) = Alpha * (n(d) * z(d))
    BY <2>1
  <2>5. Alpha * (n(e) * z(e)) \in Nat
    <3>1. n(e) * z(e) \in Nat
      BY <1>1
    <3> QED
      BY <1>3, <3>1
  <2> QED
    BY <1>4, <2>2, <2>3, <2>4, <2>5
<1>6. 100 * x(d) < Alpha * n(d)
  <2>1. \A p, q \in Nat, r \in Nat \ {0} : q <= p => q * r <= p * r
    OBVIOUS
  <2> SUFFICES ASSUME Alpha * n(d) <= 100 * x(d) PROVE FALSE
    BY <1>1, <1>3
  <2>2. (Alpha * n(d)) * z(d) <= (100 * x(d)) * z(d)
    BY <1>1, <1>3, <2>1
  <2> QED
    BY <1>1, <1>3, <1>5, <2>2
<1> QED
  BY <1>6 DEF Rejects, x, n

-----------------------------------------------------------------------------
(* Points *)

\* There are two judged fields.
LEMMA FieldsAreFinite == IsFiniteSet(JudgedFields)
<1>1. JudgedFields = {"issue_summary"} \cup {"requested_action"}
  BY DEF JudgedFields
<1> QED
  BY <1>1, FS_Singleton, FS_Union

\* A row has its deterministic points and a score or none of each judged field.
LEMMA RowType ==
    ASSUME NEW row \in Row
    PROVE  row.det \in Int /\ row.judged \in [JudgedFields -> {0, 1, Missing}]
<1>1. CASE row \in JudgedRow
  BY <1>1 DEF JudgedRow
<1>2. CASE row = FailedRow
  <2>1. row.det = 0 /\ row.judged = [f \in JudgedFields |-> 0]
    BY <1>2 DEF FailedRow
  <2> QED
    BY <2>1
<1> QED
  BY <1>1, <1>2 DEF Row

\* The points of a row are an integer, whatever is missing.
LEMMA PointsType ==
    ASSUME NEW row \in Row, NEW mode
    PROVE  Points(row, mode) \in Int
<1>1. row.det \in Int /\ row.judged \in [JudgedFields -> {0, 1, Missing}]
  BY RowType
<1>2. SumFunction(row.judged) \in Int
  <2>1. \A f \in JudgedFields : row.judged[f] \in Int
    BY <1>1 DEF Missing
  <2> QED
    BY <1>1, <2>1, FieldsAreFinite, SumType DEF SumFunction
<1> QED
  BY <1>1, <1>2 DEF Points

\* A row that scores at least as much on each field has at least as many points.
LEMMA PointsAreMonotone ==
    ASSUME NEW row \in Row, NEW better \in Row, NEW mode, better.det >= row.det,
           \A f \in JudgedFields : better.judged[f] >= row.judged[f]
    PROVE  Points(row, mode) <= Points(better, mode)
<1>1. /\ row.det \in Int /\ row.judged \in [JudgedFields -> {0, 1, Missing}]
      /\ better.det \in Int /\ better.judged \in [JudgedFields -> {0, 1, Missing}]
  BY RowType
<1>2. \A f \in JudgedFields : row.judged[f] \in Int /\ better.judged[f] \in Int
                            /\ row.judged[f] <= better.judged[f]
  BY <1>1 DEF Missing
<1>3. SumFunctionOnSet(row.judged, JudgedFields) <= SumFunctionOnSet(better.judged, JudgedFields)
  BY <1>2, FieldsAreFinite, SumIsMonotone
<1>4. /\ SumFunctionOnSet(row.judged, JudgedFields) \in Int
      /\ SumFunctionOnSet(better.judged, JudgedFields) \in Int
  BY <1>2, FieldsAreFinite, SumType
<1> QED
  BY <1>1, <1>3, <1>4 DEF Points, SumFunction

\* The rows of a slot and their slots.
LEMMA SlotsAreFinite ==
    ASSUME NEW art, IsArtifact(art)
    PROVE  /\ IsFiniteSet(Slots(art)) /\ art.k \in Nat \ {0}
           /\ \A s \in Slots(art) : art.rows[s] \in Row
           /\ \A item \in art.nominal \cup art.adversarial :
                /\ {item} \X (1 .. art.k) \subseteq Slots(art)
                /\ Cardinality({item} \X (1 .. art.k)) = art.k
<1>1. art.k \in Nat \ {0} /\ IsFiniteSet(1 .. art.k) /\ Cardinality(1 .. art.k) = art.k
  BY FS_Interval DEF IsArtifact
<1>2. IsFiniteSet(art.nominal \cup art.adversarial)
  BY FS_Union DEF IsArtifact
<1>3. IsFiniteSet(Slots(art))
  BY <1>1, <1>2, FS_Product DEF Slots
<1>4. ASSUME NEW item \in art.nominal \cup art.adversarial
      PROVE  /\ {item} \X (1 .. art.k) \subseteq Slots(art)
             /\ Cardinality({item} \X (1 .. art.k)) = art.k
  <2>1. IsFiniteSet({item}) /\ Cardinality({item}) = 1
    BY FS_Singleton
  <2>2. Cardinality({item} \X (1 .. art.k)) = 1 * art.k
    BY <1>1, <2>1, FS_Product
  <2> QED
    BY <1>1, <2>2 DEF Slots
<1> QED
  BY <1>1, <1>3, <1>4 DEF IsArtifact

\* The points of some rows of a run are an integer.
LEMMA PointsOverType ==
    ASSUME NEW art, IsArtifact(art), NEW slots \in SUBSET Slots(art), NEW mode
    PROVE  PointsOver(art, slots, mode) \in Int
<1> DEFINE f == [s \in slots |-> Points(art.rows[s], mode)]
<1>1. IsFiniteSet(slots) /\ \A s \in slots : f[s] \in Int
  BY SlotsAreFinite, FS_Subset, PointsType
<1>2. DOMAIN f = slots
  OBVIOUS
<1> HIDE DEF f
<1>3. SumFunction(f) \in Int
  BY <1>1, <1>2, SumType DEF SumFunction
<1> QED
  BY <1>3 DEF PointsOver, f

\* Better scores give the same rows at least as many points.
LEMMA PointsOverAreMonotone ==
    ASSUME NEW art, IsArtifact(art), NEW better, IsArtifact(better), NEW mode,
           NEW slots \in SUBSET Slots(art), slots \in SUBSET Slots(better),
           \A s \in slots :
                /\ better.rows[s].det >= art.rows[s].det
                /\ \A f \in JudgedFields : better.rows[s].judged[f] >= art.rows[s].judged[f]
    PROVE  PointsOver(art, slots, mode) <= PointsOver(better, slots, mode)
<1> DEFINE f == [s \in slots |-> Points(art.rows[s], mode)]
           g == [s \in slots |-> Points(better.rows[s], mode)]
<1>0. \A s \in slots : art.rows[s] \in Row /\ better.rows[s] \in Row
  BY SlotsAreFinite
<1>1. IsFiniteSet(slots) /\ \A s \in slots : f[s] \in Int /\ g[s] \in Int
  BY <1>0, SlotsAreFinite, FS_Subset, PointsType
<1>2. \A s \in slots : f[s] <= g[s]
  BY <1>0, PointsAreMonotone
<1>3. DOMAIN f = slots /\ DOMAIN g = slots
  OBVIOUS
<1> HIDE DEF f, g
<1>4. SumFunction(f) <= SumFunction(g)
  BY <1>1, <1>2, <1>3, SumIsMonotone DEF SumFunction
<1> QED
  BY <1>4 DEF PointsOver, f, g

\* Rows with the same points each.
LEMMA PointsOverConstant ==
    ASSUME NEW art, IsArtifact(art), NEW mode, NEW slots \in SUBSET Slots(art),
           NEW p \in Int, \A s \in slots : Points(art.rows[s], mode) = p
    PROVE  PointsOver(art, slots, mode) = Cardinality(slots) * p
<1> DEFINE f == [s \in slots |-> Points(art.rows[s], mode)]
<1>1. IsFiniteSet(slots) /\ DOMAIN f = slots /\ \A s \in slots : f[s] = p
  BY SlotsAreFinite, FS_Subset
<1> HIDE DEF f
<1>2. SumFunction(f) = Cardinality(slots) * p
  BY <1>1, SumOfConstant DEF SumFunction
<1> QED
  BY <1>2 DEF PointsOver, f

-----------------------------------------------------------------------------
(* Deltas *)

\* Two artifacts of which the second can be compared with the first.
SameItems(base, r) == IsArtifact(base) /\ IsArtifact(r) /\ base.nominal = r.nominal

\* A delta is an integer, and there are finitely many.
LEMMA DeltasType ==
    ASSUME NEW base, NEW r, NEW mode, SameItems(base, r)
    PROVE  /\ IsFiniteSet(Paired(base, r, mode))
           /\ PairedDeltas(base, r, mode) \in [Paired(base, r, mode) -> Int]
<1>1. IsFiniteSet(Paired(base, r, mode))
  BY FS_Subset DEF Paired, SameItems, IsArtifact
<1>2. ASSUME NEW item \in Paired(base, r, mode)
      PROVE  /\ ItemPoints(base, item, mode) \in Int /\ ItemPoints(r, item, mode) \in Int
             /\ base.k \in Int /\ r.k \in Int
  <2>1. item \in base.nominal /\ item \in r.nominal
    BY DEF Paired, SameItems
  <2>2. /\ {item} \X (1 .. base.k) \in SUBSET Slots(base) /\ base.k \in Int
        /\ {item} \X (1 .. r.k) \in SUBSET Slots(r) /\ r.k \in Int
    <3>1. IsArtifact(base) /\ IsArtifact(r)
      BY DEF SameItems
    <3>2. {item} \X (1 .. base.k) \in SUBSET Slots(base) /\ base.k \in Nat \ {0}
      BY <2>1, <3>1, SlotsAreFinite
    <3>3. {item} \X (1 .. r.k) \in SUBSET Slots(r) /\ r.k \in Nat \ {0}
      BY <2>1, <3>1, SlotsAreFinite
    <3> QED
      BY <3>2, <3>3
  <2> QED
    BY <2>2, PointsOverType DEF ItemPoints, SameItems
<1>3. \A item \in Paired(base, r, mode) :
        100 * (base.k * ItemPoints(r, item, mode) - r.k * ItemPoints(base, item, mode)) \in Int
  BY <1>2
<1> QED
  BY <1>1, <1>3 DEF PairedDeltas

\* The test rejects only what many changes make unlikely: with no deltas but 0,
\* nothing.
LEMMA RejectionTakesChanges ==
    ASSUME NEW D, IsFiniteSet(D), NEW d \in [D -> Int], Rejects(d)
    PROVE  100 < Alpha * Cardinality(SUBSET Nonzero(d)) /\ Nonzero(d) # {}
<1>1. Cardinality(Extreme(d)) \in Nat \ {0}
  BY SomethingIsExtreme
<1>2. IsFiniteSet(SUBSET Nonzero(d)) /\ Cardinality(SUBSET Nonzero(d)) \in Nat
  <2>1. IsFiniteSet(Nonzero(d))
    BY FS_Subset DEF Nonzero
  <2> QED
    BY <2>1, FS_SUBSET, FS_CardinalityType
<1>3. 100 < Alpha * Cardinality(SUBSET Nonzero(d))
  <2>1. Alpha * Cardinality(SUBSET Nonzero(d)) \in Nat
    BY <1>2, RulesAssumption
  <2> QED
    BY <1>1, <2>1 DEF Rejects
<1>4. ASSUME Nonzero(d) = {} PROVE FALSE
  <2>1. SUBSET Nonzero(d) = {{}}
    BY <1>4
  <2>2. Cardinality(SUBSET Nonzero(d)) = 1
    BY <2>1, FS_Singleton
  <2> QED
    BY <1>3, <2>2, RulesAssumption
<1> QED
  BY <1>3, <1>4

\* Where the two sides have the same scores, every delta is 0: a judge error takes
\* its item out, on whichever side it is.
LEMMA NoChangeNoDelta ==
    ASSUME NEW base, NEW r, NEW mode, SameItems(base, r), NEW item \in Paired(base, r, mode),
           NoChange(base, r)
    PROVE  PairedDeltas(base, r, mode)[item] = 0
<1> DEFINE bSlots == {item} \X (1 .. base.k)
           rSlots == {item} \X (1 .. r.k)
<1>1. item \in base.nominal /\ item \in r.nominal
  BY DEF Paired, SameItems
<1>2. /\ bSlots \in SUBSET Slots(base) /\ base.k \in Nat \ {0} /\ Cardinality(bSlots) = base.k
      /\ rSlots \in SUBSET Slots(r) /\ r.k \in Nat \ {0} /\ Cardinality(rSlots) = r.k
      /\ \A s \in bSlots : base.rows[s] \in Row
      /\ \A s \in rSlots : r.rows[s] \in Row
  BY <1>1, SlotsAreFinite DEF SameItems
<1>3. ASSUME NEW s \in bSlots, NEW t \in rSlots
      PROVE  Points(base.rows[s], mode) = Points(r.rows[t], mode)
  <2>1. s \in Slots(base) /\ t \in Slots(r) /\ s[1] = t[1]
    BY <1>2
  <2>2. Measured(base.rows[s], mode) /\ Measured(r.rows[t], mode)
    BY DEF Paired, ItemMeasured
  <2>3. base.rows[s].det = r.rows[t].det
    BY <2>1 DEF NoChange
  <2>4. ASSUME mode = "FULL_7" PROVE base.rows[s].judged = r.rows[t].judged
    <3>1. \A f \in JudgedFields : base.rows[s].judged[f] = r.rows[t].judged[f]
      BY <2>1, <2>2, <2>4 DEF Measured, NoChange
    <3>2. /\ base.rows[s].judged \in [JudgedFields -> {0, 1, Missing}]
          /\ r.rows[t].judged \in [JudgedFields -> {0, 1, Missing}]
      BY <1>2, RowType
    <3> QED
      BY <3>1, <3>2
  <2> QED
    BY <2>3, <2>4 DEF Points
<1>4. PICK p \in Int : /\ \A s \in bSlots : Points(base.rows[s], mode) = p
                      /\ \A t \in rSlots : Points(r.rows[t], mode) = p
  <2>1. <<item, 1>> \in bSlots /\ <<item, 1>> \in rSlots
    BY <1>2
  <2>2. Points(base.rows[<<item, 1>>], mode) \in Int
    BY <1>2, <2>1, PointsType
  <2>3. \A s \in bSlots : Points(base.rows[s], mode) = Points(base.rows[<<item, 1>>], mode)
    BY <1>3, <2>1
  <2>4. \A t \in rSlots : Points(r.rows[t], mode) = Points(base.rows[<<item, 1>>], mode)
    BY <1>3, <2>1
  <2> QED
    BY <2>2, <2>3, <2>4
<1>5. ItemPoints(base, item, mode) = base.k * p /\ ItemPoints(r, item, mode) = r.k * p
  <2> HIDE DEF bSlots, rSlots
  <2>1. /\ PointsOver(base, bSlots, mode) = base.k * p
        /\ PointsOver(r, rSlots, mode) = r.k * p
    BY <1>2, <1>4, PointsOverConstant DEF SameItems
  <2> QED
    BY <2>1 DEF ItemPoints, bSlots, rSlots
<1>6. base.k * (r.k * p) = r.k * (base.k * p)
  BY <1>2
<1>7. 100 * (base.k * ItemPoints(r, item, mode) - r.k * ItemPoints(base, item, mode)) = 0
  <2>1. base.k * (r.k * p) \in Int
    BY <1>2
  <2> QED
    BY <1>5, <1>6, <2>1
<1> QED
  BY <1>7 DEF PairedDeltas

-----------------------------------------------------------------------------
(* Better scores *)

\* Two runs, the second with the better scores.
Improved(r, better) == IsArtifact(better) /\ IsArtifact(r) /\ Better(better, r)

\* Nothing is missing, so that the two runs have composites for the same rows.
LEMMA AllMeasured ==
    ASSUME NEW better, NEW r, NEW mode, Improved(r, better)
    PROVE  /\ Slots(better) = Slots(r)
           /\ \A s \in Slots(r) : Measured(r.rows[s], mode) /\ Measured(better.rows[s], mode)
<1>1. Slots(better) = Slots(r)
  BY DEF Improved, Better, Slots
<1>2. ASSUME NEW s \in Slots(r), NEW f \in JudgedFields
      PROVE  r.rows[s].judged[f] # Missing /\ better.rows[s].judged[f] # Missing
  <2>1. r.rows[s] \in Row /\ better.rows[s] \in Row
    BY <1>1, SlotsAreFinite DEF Improved, Better
  <2>2. r.rows[s].judged[f] \in {0, 1, Missing} /\ better.rows[s].judged[f] \in {0, 1, Missing}
    BY <2>1, RowType
  <2>3. r.rows[s].judged[f] # Missing /\ better.rows[s].judged[f] >= r.rows[s].judged[f]
    BY DEF Improved, Better
  <2> QED
    BY <2>2, <2>3 DEF Missing
<1> QED
  BY <1>1, <1>2 DEF Measured

\* No delta is smaller with the better scores.
LEMMA BetterDeltas ==
    ASSUME NEW base, NEW better, NEW r, NEW mode, Improved(r, better), SameItems(base, r)
    PROVE  /\ Paired(base, better, mode) = Paired(base, r, mode)
           /\ \A item \in Paired(base, r, mode) :
                PairedDeltas(base, r, mode)[item] <= PairedDeltas(base, better, mode)[item]
<1>0. /\ IsArtifact(base) /\ IsArtifact(better) /\ IsArtifact(r)
      /\ base.nominal = r.nominal /\ better.nominal = r.nominal /\ better.k = r.k
  BY DEF Improved, Better, SameItems
<1>1. ASSUME NEW item \in base.nominal
      PROVE  /\ {item} \X (1 .. r.k) \in SUBSET Slots(r)
             /\ {item} \X (1 .. base.k) \in SUBSET Slots(base)
             /\ base.k \in Nat \ {0} /\ r.k \in Nat \ {0}
  BY <1>0, SlotsAreFinite
<1>2. ASSUME NEW item \in base.nominal
      PROVE  ItemMeasured(r, item, mode) /\ ItemMeasured(better, item, mode)
  BY <1>0, <1>1, AllMeasured DEF ItemMeasured
<1>3. Paired(base, better, mode) = Paired(base, r, mode)
  BY <1>2 DEF Paired
<1>4. ASSUME NEW item \in Paired(base, r, mode)
      PROVE  PairedDeltas(base, r, mode)[item] <= PairedDeltas(base, better, mode)[item]
  <2> DEFINE slots == {item} \X (1 .. r.k)
  <2>1. item \in base.nominal
    BY DEF Paired
  <2>2. slots \in SUBSET Slots(r) /\ slots \in SUBSET Slots(better)
    BY <1>1, <2>1, AllMeasured
  <2>3. PointsOver(r, slots, mode) <= PointsOver(better, slots, mode)
    <3>1. \A s \in slots :
            /\ better.rows[s].det >= r.rows[s].det
            /\ \A f \in JudgedFields : better.rows[s].judged[f] >= r.rows[s].judged[f]
      BY <2>2 DEF Improved, Better
    <3> HIDE DEF slots
    <3> QED
      BY <1>0, <2>2, <3>1, PointsOverAreMonotone
  <2>4. ItemPoints(r, item, mode) <= ItemPoints(better, item, mode)
    BY <1>0, <2>3 DEF ItemPoints
  <2>5. /\ ItemPoints(r, item, mode) \in Int /\ ItemPoints(better, item, mode) \in Int
        /\ ItemPoints(base, item, mode) \in Int
    <3>1. {item} \X (1 .. base.k) \in SUBSET Slots(base)
      BY <1>1, <2>1
    <3> QED
      BY <1>0, <2>2, <3>1, PointsOverType DEF ItemPoints
  <2>6. base.k * ItemPoints(r, item, mode) <= base.k * ItemPoints(better, item, mode)
    <3>1. \A k \in Nat, p, q \in Int : p <= q => k * p <= k * q
      OBVIOUS
    <3> QED
      BY <1>1, <2>1, <2>4, <2>5, <3>1
  <2>7. 100 * (base.k * ItemPoints(r, item, mode) - r.k * ItemPoints(base, item, mode)) <=
        100 * (base.k * ItemPoints(better, item, mode) - r.k * ItemPoints(base, item, mode))
    <3>1. /\ base.k * ItemPoints(r, item, mode) \in Int
          /\ base.k * ItemPoints(better, item, mode) \in Int
          /\ r.k * ItemPoints(base, item, mode) \in Int
      BY <1>1, <2>1, <2>5
    <3> QED
      BY <2>6, <3>1
  <2> QED
    BY <1>0, <1>3, <2>7 DEF PairedDeltas
<1> QED
  BY <1>3, <1>4

\* The statistical test does not punish better scores.
LEMMA BetterStatFail ==
    ASSUME NEW base, NEW better, NEW r, NEW mode, Improved(r, better), SameItems(base, r),
           StatFail(base, better, mode)
    PROVE  StatFail(base, r, mode)
<1> DEFINE D == Paired(base, r, mode)
           d == PairedDeltas(base, r, mode)
           e == PairedDeltas(base, better, mode)
           needed == Margin * Cardinality(D) * DeltaUnit(base, r, mode)
<1>1. SameItems(base, better)
  BY DEF Improved, Better, SameItems
<1>2. /\ IsFiniteSet(D) /\ d \in [D -> Int] /\ e \in [D -> Int]
      /\ \A i \in D : d[i] <= e[i]
  BY <1>1, DeltasType, BetterDeltas
<1>3. Rejects(e) /\ -SumFunction(e) > Margin * Cardinality(DOMAIN e) * DeltaUnit(base, better, mode)
  BY DEF StatFail
<1>4. DeltaUnit(base, better, mode) = DeltaUnit(base, r, mode)
  BY DEF DeltaUnit, Improved, Better
<1>5. needed \in Int
  <2>1. Cardinality(D) \in Int
    BY <1>2, FS_CardinalityType
  <2>2. DeltaUnit(base, r, mode) \in Int
    <3>1. base.k \in Int /\ r.k \in Int
      BY DEF SameItems, IsArtifact
    <3> QED
      BY <3>1 DEF DeltaUnit, FieldCount
  <2>3. \A x, y, z \in Int : x * y * z \in Int
    OBVIOUS
  <2> QED
    BY <2>1, <2>2, <2>3, RulesAssumption
<1> HIDE DEF D, d, e, needed
<1>6. Rejects(d)
  BY <1>2, <1>3, RejectionIsMonotone
<1>7. SumFunction(d) <= SumFunction(e) /\ SumFunction(d) \in Int /\ SumFunction(e) \in Int
  <2>1. DOMAIN d = D /\ DOMAIN e = D /\ \A i \in D : d[i] \in Int /\ e[i] \in Int
    BY <1>2
  <2> QED
    BY <1>2, <2>1, SumIsMonotone, SumType DEF SumFunction
<1>8. -SumFunction(e) > needed
  BY <1>2, <1>3, <1>4 DEF needed
<1>9. -SumFunction(d) > needed
  BY <1>5, <1>7, <1>8
<1> QED
  BY <1>2, <1>6, <1>9 DEF StatFail, d, needed

\* Nor does the guardrail.
LEMMA BetterGuardrail ==
    ASSUME NEW base, NEW better, NEW r, NEW mode, Improved(r, better), IsArtifact(base),
           GuardrailTripped(base, better, mode)
    PROVE  GuardrailTripped(base, r, mode)
<1> DEFINE b == AdversarialSlots(base, mode)
           s == AdversarialSlots(r, mode)
           p == PointsOver(r, s, mode)
           q == PointsOver(better, s, mode)
           B == PointsOver(base, b, mode)
           needed == -Threshold * FieldCount(mode) * (Cardinality(b) * Cardinality(s))
<1>0. IsArtifact(better) /\ IsArtifact(r)
  BY DEF Improved, Better
<1>1. s \in SUBSET Slots(r) /\ s \in SUBSET Slots(better) /\ b \in SUBSET Slots(base)
  BY AllMeasured DEF AdversarialSlots, Slots
<1>2. AdversarialSlots(better, mode) = s
  <2>1. better.adversarial \X (1 .. better.k) = r.adversarial \X (1 .. r.k)
    BY DEF Improved, Better
  <2>2. r.adversarial \X (1 .. r.k) \subseteq Slots(r)
    BY DEF Slots
  <2>3. \A t \in r.adversarial \X (1 .. r.k) :
            Measured(better.rows[t], mode) /\ Measured(r.rows[t], mode)
    BY <2>2, AllMeasured
  <2> QED
    BY <2>1, <2>3 DEF AdversarialSlots
<1>3. p <= q /\ p \in Int /\ q \in Int /\ B \in Int
  <2>1. \A t \in s :
          /\ better.rows[t].det >= r.rows[t].det
          /\ \A f \in JudgedFields : better.rows[t].judged[f] >= r.rows[t].judged[f]
    BY <1>1 DEF Improved, Better
  <2> HIDE DEF s, b
  <2> QED
    BY <1>0, <1>1, <2>1, PointsOverAreMonotone, PointsOverType
<1>4. Cardinality(b) \in Nat /\ Cardinality(s) \in Nat
  <2>1. IsFiniteSet(b) /\ IsFiniteSet(s)
    BY <1>0, <1>1, SlotsAreFinite, FS_Subset
  <2> QED
    BY <2>1, FS_CardinalityType
<1>5. /\ b # {} /\ s # {}
      /\ 100 * (q * Cardinality(b) - B * Cardinality(s)) <= needed
  BY <1>2 DEF GuardrailTripped
<1>6. 100 * (p * Cardinality(b) - B * Cardinality(s)) <= needed
  <2> HIDE DEF p, q, B, b, s
  <2>1. \A k \in Nat, x, y \in Int : x <= y => x * k <= y * k
    OBVIOUS
  <2>2. p * Cardinality(b) <= q * Cardinality(b)
    BY <1>3, <1>4, <2>1
  <2>3. /\ p * Cardinality(b) \in Int /\ q * Cardinality(b) \in Int
        /\ B * Cardinality(s) \in Int
    BY <1>3, <1>4
  <2>4. needed \in Int
    <3>1. Threshold \in Int /\ FieldCount(mode) \in Int
      BY RulesAssumption DEF FieldCount
    <3>2. Cardinality(b) * Cardinality(s) \in Int
      BY <1>4
    <3>3. \A x, y, z \in Int : x * y * z \in Int
      OBVIOUS
    <3>4. Threshold * FieldCount(mode) * (Cardinality(b) * Cardinality(s)) \in Int
      BY <3>1, <3>2, <3>3
    <3> QED
      BY <3>4
  <2> HIDE DEF needed
  <2> QED
    BY <1>5, <2>2, <2>3, <2>4
<1> QED
  BY <1>5, <1>6 DEF GuardrailTripped

-----------------------------------------------------------------------------
(* Verdicts *)

\* A verdict is that of what was measured: nothing it rests on changes afterwards.
Just == \A c \in Candidates :
    verdict[c] # "none" => verdict[c] = Verdict(store[c], run[c], ModeOf(certificate))

LEMMA JustKept == IInv /\ Just /\ [Next]_vars => Just'
<1> SUFFICES ASSUME IInv, Just, [Next]_vars PROVE Just'
  OBVIOUS
<1>1. CASE Decide
  <2>1. UNCHANGED <<store, run, certificate>>
    BY <1>1 DEF Decide, Raise, Advance, given
  <2>2. turn \in Candidates /\ verdict \in [Candidates -> {"none", "pass", "fail"}]
    BY DEF IInv, TypeOK
  <2>3. CASE verdict' = verdict
    BY <2>1, <2>3 DEF Just
  <2>4. CASE verdict' = [verdict EXCEPT ![turn] =
                            Verdict(store[turn], run[turn], ModeOf(certificate))]
    <3>1. \A c \in Candidates : verdict'[c] =
            IF c = turn THEN Verdict(store[c], run[c], ModeOf(certificate)) ELSE verdict[c]
      BY <2>2, <2>4
    <3>2. \A c \in Candidates : verdict'[c] # "none" =>
            verdict'[c] = Verdict(store[c], run[c], ModeOf(certificate))
      BY <3>1 DEF Just
    <3> QED
      BY <2>1, <3>2 DEF Just
  <2> QED
    BY <1>1, <2>3, <2>4 DEF Decide, Raise
<1>2. CASE \E artifact \in RunsOf[turn] : RunCompletes(artifact)
  <2>1. \A c \in Candidates : verdict'[c] = "none"
    BY <1>2 DEF RunCompletes, IInv, InOrder
  <2> QED
    BY <2>1 DEF Just
<1>3. CASE ~Decide /\ ~\E artifact \in RunsOf[turn] : RunCompletes(artifact)
  <2>1. UNCHANGED verdict /\ (UNCHANGED <<store, certificate>>) /\ UNCHANGED run
    <3>1. CASE UNCHANGED vars
      BY <3>1 DEF vars, given
    <3>2. CASE SetupRaises \/ TracingMissing \/ ClientMissing
      BY <3>2 DEF SetupRaises, TracingMissing, ClientMissing, Raise, given
    <3>3. CASE CheckCertificate \/ StartTracing
      BY <3>3 DEF CheckCertificate, StartTracing, Raise, given
    <3>4. CASE LoadBaseline
      <4>1. turn \in Candidates
        BY DEF IInv, TypeOK
      <4>2. store[turn].state \in {"absent", "unreadable", "whole"}
        BY <4>1, StoreState DEF IInv
      <4> QED
        BY <3>4, <4>2 DEF LoadBaseline, Raise, Advance, given
    <3>5. CASE (\E exception \in {"RunAborted", "OSError"} : RunEnds(exception)) \/ Finish
      BY <3>5 DEF RunEnds, Finish, given
    <3> QED
      BY <1>3, <3>1, <3>2, <3>3, <3>4, <3>5 DEF Next
  <2> QED
    BY <2>1 DEF Just
<1> QED
  BY <1>1, <1>2, <1>3

LEMMA JustInvariance == Spec => [](IInv /\ Just)
<1>1. Init => Just
  BY DEF Init, Just, Candidates
<1> QED
  BY <1>1, JustKept, Invariance, PTL DEF Spec

\* A candidate that can be compared has two artifacts of the same nominal items.
LEMMA ComparableArtifacts ==
    ASSUME IInv, NEW c \in Candidates, Comparable(c)
    PROVE  /\ SameItems(store[c], run[c])
           /\ \A artifact \in RunsOf[c] : IsArtifact(artifact)
<1>1. run[c] \in RunsOf[c] /\ store[c] \in BaselinesOf[c]
  BY DEF IInv, TypeOK, Found, Comparable
<1>2. store[c] \notin {Absent, Unreadable}
  BY DEF Comparable, Absent, Unreadable
<1>3. store[c].nominal = run[c].nominal
  BY DEF Comparable, ProblemOf, Problem
<1> QED
  BY <1>1, <1>2, <1>3, GateAssumption DEF SameItems

-----------------------------------------------------------------------------
(* Theorems *)

\* Every step leaves the invocation in one of its steps, with runs of the
\* candidates under their own names (gate).
THEOREM GateTypeCorrect == Spec => []TypeOK
<1>1. IInv => TypeOK
  BY DEF IInv
<1> QED
  BY <1>1, Invariance, PTL

\* Exit code 1 is a regression or a crash, never a measurement error
\* (_gate_clean_exit).
THEOREM OneMeansRegression == Spec => []ExitOneMeansRegression
<1>1. IInv => ExitOneMeansRegression
  <2> SUFFICES ASSUME IInv, exit = 1, cause \notin Tracebacks
               PROVE  /\ \A c \in Candidates : run[c] # NotRun /\ verdict[c] # "none"
                      /\ \E c \in Candidates : verdict[c] = "fail"
    BY DEF ExitOneMeansRegression
  <2>1. pc = "done"
    BY DEF IInv, Ending, NoExit
  <2>2. cause = "none"
    BY <2>1 DEF IInv, Ending, Found, Causes, ExitOf
  <2> QED
    BY <2>1, <2>2 DEF IInv, Ending, Earned
<1> QED
  BY <1>1, Invariance, PTL

\* Exit codes 0 and 1 are about two measurements that can be compared with
\* their baselines; a measurement error of one candidate outranks a regression
\* of the other (evaluate_gate).
THEOREM ErrorsOutrankVerdicts == Spec => []MeasurementErrorWins
<1>1. IInv => MeasurementErrorWins
  <2> SUFFICES ASSUME IInv, exit \in {0, 1}, cause \notin Tracebacks, NEW c \in Candidates
               PROVE  /\ demo \/ FingerprintAgrees(store[c], run[c], certificate)
                      /\ ~OverBudget(run[c])
                      /\ store[c].nominal = run[c].nominal
    BY DEF MeasurementErrorWins
  <2>1. pc = "done"
    BY DEF IInv, Ending, NoExit
  <2>2. cause = "none"
    BY <2>1 DEF IInv, Ending, Found, Causes, ExitOf
  <2>3. ProblemOf(c) = "none"
    BY <2>1, <2>2 DEF IInv, Ending, Earned
  <2> QED
    BY <2>3 DEF ProblemOf, Problem
<1> QED
  BY <1>1, Invariance, PTL

\* The runs of an invocation without a verdict are never removed, those of one
\* with a verdict only on request kept (_gate_clean_exit).
THEOREM EvidenceSurvives == Spec => []EvidenceIsKept
<1>1. IInv => EvidenceIsKept
  <2> SUFFICES ASSUME IInv, pc = "done",
                      cause \in {"none", "RunAborted"} \/ \E c \in Candidates : run[c] # NotRun
               PROVE  runsRoot <=> keepRuns \/ cause # "none"
    BY DEF EvidenceIsKept
  <2>1. CASE cause = "none"
    BY <2>1 DEF IInv, Ending
  <2>2. CASE cause # "none"
    BY <2>2 DEF IInv, Ending
  <2> QED
    BY <2>1, <2>2
<1> QED
  BY <1>1, Invariance, PTL

\* "judge failures can never register as candidate regressions": whatever the
\* judge errors and the replicates of either side, scores that have not changed
\* never fail the statistical test, at any significance level (sign_flip_test,
\* _pair_by_item).
THEOREM JudgeErrorsAreNoRegression == Spec => []JudgeErrorsPassTheTest
<1>1. IInv => JudgeErrorsPassTheTest
  <2> SUFFICES ASSUME IInv, NEW c \in Candidates, Comparable(c), NoChange(store[c], run[c]),
                      StatFail(store[c], run[c], ModeOf(certificate))
               PROVE  FALSE
    BY DEF JudgeErrorsPassTheTest
  <2> DEFINE mode == ModeOf(certificate)
             D    == Paired(store[c], run[c], mode)
             d    == PairedDeltas(store[c], run[c], mode)
  <2>1. SameItems(store[c], run[c])
    BY ComparableArtifacts
  <2>2. IsFiniteSet(D) /\ d \in [D -> Int] /\ \A item \in D : d[item] = 0
    BY <2>1, DeltasType, NoChangeNoDelta
  <2>3. Nonzero(d) = {}
    BY <2>2 DEF Nonzero
  <2>4. Rejects(d)
    BY DEF StatFail
  <2> HIDE DEF d, D
  <2> QED
    BY <2>2, <2>3, <2>4, RejectionTakesChanges
<1> QED
  BY <1>1, Invariance, PTL

\* With m changed items the p-value is at least 1 / 2^m (min_attainable_p of
\* sign_flip_test), so few items cannot fail a candidate.
THEOREM FewChangesPass == Spec => []RejectionNeedsChanges
<1>1. IInv => RejectionNeedsChanges
  <2> SUFFICES ASSUME IInv, NEW c \in Candidates, Comparable(c),
                      Rejects(PairedDeltas(store[c], run[c], ModeOf(certificate)))
               PROVE  100 < Alpha * Cardinality(SUBSET Nonzero(
                                PairedDeltas(store[c], run[c], ModeOf(certificate))))
    BY DEF RejectionNeedsChanges
  <2>1. SameItems(store[c], run[c])
    BY ComparableArtifacts
  <2> QED
    BY <2>1, DeltasType, RejectionTakesChanges
<1> QED
  BY <1>1, Invariance, PTL

\* Nobody fails for having become better: the sign-flip test and the guardrail
\* are monotone in the scores (evaluate_gate, decide_candidate_result).
THEOREM ImprovementPasses == Spec => []BetterScoresPassToo
<1>1. IInv /\ Just => BetterScoresPassToo
  <2> SUFFICES ASSUME IInv, Just, NEW c \in Candidates, verdict[c] = "pass", Comparable(c),
                      NEW better \in RunsOf[c], Better(better, run[c])
               PROVE  Verdict(store[c], better, ModeOf(certificate)) = "pass"
    BY DEF BetterScoresPassToo
  <2> DEFINE mode == ModeOf(certificate)
  <2>1. SameItems(store[c], run[c]) /\ IsArtifact(better)
    BY ComparableArtifacts
  <2>2. Improved(run[c], better) /\ IsArtifact(store[c])
    BY <2>1 DEF Improved, SameItems
  <2>3. Verdict(store[c], run[c], mode) = "pass"
    BY DEF Just
  <2>4. ~StatFail(store[c], run[c], mode) /\ ~GuardrailTripped(store[c], run[c], mode)
    BY <2>3 DEF Verdict
  <2>5. ~StatFail(store[c], better, mode) /\ ~GuardrailTripped(store[c], better, mode)
    BY <2>1, <2>2, <2>4, BetterStatFail, BetterGuardrail
  <2> QED
    BY <2>5 DEF Verdict
<1> QED
  BY <1>1, JustInvariance, PTL
=============================================================================
