-------------------------- MODULE CalibrationProofs --------------------------
(***************************************************************************)
(* What Calibration does, for every set of items, texts, annotators and    *)
(* verdicts and every bound, with machine-checked proofs.                  *)
(***************************************************************************)
EXTENDS Calibration, SequenceTheorems, FiniteSetTheorems, TLAPS

-----------------------------------------------------------------------------
(* The keys in order *)

\* The keys are finitely many: KeyOrder lists them.
LEMMA FiniteKeys == IsFiniteSet(Keys)
<1>1. KeyOrder \in Seq(Keys) BY KeyAssumption
<1>2. DOMAIN KeyOrder = 1..Len(KeyOrder) /\ Len(KeyOrder) \in Nat
  BY <1>1
<1> DEFINE R == {KeyOrder[i] : i \in DOMAIN KeyOrder}
           f == [i \in DOMAIN KeyOrder |-> KeyOrder[i]]
<1>3. IsFiniteSet(DOMAIN KeyOrder)
  BY <1>2, FS_Interval
<1>4. f \in Surjection(DOMAIN KeyOrder, R)
  BY DEF Surjection
<1>5. IsFiniteSet(R)
  <2> HIDE DEF f, R
  <2> QED BY <1>3, <1>4, FS_Surjection
<1>6. Keys \subseteq R
  BY KeyAssumption
<1> HIDE DEF R
<1> QED BY <1>5, <1>6, FS_Subset

\* Every key has a position, and no two keys the same one.
LEMMA Positions ==
  ASSUME NEW k \in Keys
  PROVE  Position(k) \in Int /\ KeyOrder[Position(k)] = k
<1>1. \E i \in DOMAIN KeyOrder : KeyOrder[i] = k
  BY KeyAssumption
<1>2. DOMAIN KeyOrder \subseteq Int
  BY KeyAssumption
<1> QED BY <1>1, <1>2 DEF Position

\* A set of keys put in order is a sequence of exactly these keys.
LEMMA InOrderListsThem ==
  ASSUME NEW S \in SUBSET Keys
  PROVE  InOrder(S) \in Seq(S)
<1> DEFINE Upto(k) == {j \in S : Position(j) <= Position(k)}
           rank == [k \in S |-> Cardinality(Upto(k))]
<1>1. IsFiniteSet(S) /\ Cardinality(S) \in Nat
  BY FiniteKeys, FS_Subset, FS_CardinalityType
<1>2. \A k \in S : /\ IsFiniteSet(Upto(k)) /\ Cardinality(Upto(k)) \in 1..Cardinality(S)
  <2> SUFFICES ASSUME NEW k \in S PROVE IsFiniteSet(Upto(k)) /\ Cardinality(Upto(k)) \in 1..Cardinality(S)
    OBVIOUS
  <2>1. k \in Upto(k) /\ Upto(k) \in SUBSET S
    BY Positions
  <2> HIDE DEF Upto
  <2>2. IsFiniteSet(Upto(k)) /\ Cardinality(Upto(k)) <= Cardinality(S)
    BY <2>1, <1>1, FS_Subset
  <2>3. Cardinality(Upto(k)) \in Nat /\ Cardinality(Upto(k)) # 0
    BY <2>1, <2>2, FS_CardinalityType, FS_EmptySet
  <2> QED BY <1>1, <2>2, <2>3
<1>3. \A j, k \in S : Cardinality(Upto(j)) = Cardinality(Upto(k)) => j = k
  <2>1. \A j, k \in S : Position(j) <= Position(k) => Upto(j) \in SUBSET Upto(k)
    BY Positions
  <2>2. \A j, k \in S : Upto(j) = Upto(k) => j = k
    <3> SUFFICES ASSUME NEW j \in S, NEW k \in S, Upto(j) = Upto(k) PROVE j = k
      OBVIOUS
    <3>1. j \in Upto(j) /\ k \in Upto(k)
      BY Positions
    <3>2. Position(j) <= Position(k) /\ Position(k) <= Position(j)
      BY <3>1
    <3> QED BY <3>2, Positions
  <2>3. \A j, k \in S : Position(j) <= Position(k) \/ Position(k) <= Position(j)
    BY Positions
  <2> HIDE DEF Upto
  <2>4. \A j, k \in S : Upto(j) \in SUBSET Upto(k) /\ Cardinality(Upto(j)) = Cardinality(Upto(k)) => Upto(j) = Upto(k)
    BY <1>2, FS_Subset
  <2> QED BY <2>1, <2>2, <2>3, <2>4
<1>4. IsFiniteSet(1..Cardinality(S)) /\ Cardinality(1..Cardinality(S)) = Cardinality(S)
  BY <1>1, FS_Interval
<1>5. rank \in Injection(S, 1..Cardinality(S))
  BY <1>2, <1>3 DEF Injection, IsInjective
<1>6. rank \in Surjection(S, 1..Cardinality(S))
  <2> HIDE DEF rank
  <2> QED BY <1>1, <1>4, <1>5, FS_Injection
<1>7. \A n \in 1..Cardinality(S) : \E k \in S : Cardinality(Upto(k)) = n
  BY <1>6 DEF Surjection
<1>8. InOrder(S) = [n \in 1..Cardinality(S) |-> CHOOSE k \in S : Cardinality(Upto(k)) = n]
  BY DEF InOrder
<1>9. InOrder(S) \in [1..Cardinality(S) -> S]
  BY <1>7, <1>8
<1> QED BY <1>1, <1>9

-----------------------------------------------------------------------------
(* Label files *)

\* What a label line is made of.
LEMMA RowFields ==
  ASSUME NEW rows \in Seq(LabelRows), NEW i \in DOMAIN rows
  PROVE  /\ rows[i] \in LabelRows
         /\ rows[i].key \in Keys /\ rows[i].annotator \in Annotators
         /\ rows[i].round \in {"initial", "adjudication"}
         /\ rows[i].verdict \in Verdicts /\ rows[i].text \in Texts
<1>1. rows[i] \in LabelRows
  BY ElementOfSeq, LenProperties
<1> QED BY <1>1 DEF LabelRows

\* A key's row is one of its lines, and the only one where no key is repeated.
LEMMA RowOfItsLines ==
  ASSUME NEW rows, NEW annotator, NEW round, NEW k \in KeysOfLines(rows, Lines(rows, annotator, round))
  PROVE  /\ \E i \in Lines(rows, annotator, round) :
                rows[i].key = k /\ RowOf(rows, k, annotator, round) = rows[i]
         /\ ByKey(rows, annotator, round)[k] = RowOf(rows, k, annotator, round)
<1>1. \E i \in Lines(rows, annotator, round) : rows[i].key = k
  BY DEF KeysOfLines
<1> QED BY <1>1 DEF RowOf, ByKey

LEMMA OnlyRow ==
  ASSUME NEW rows, NEW annotator, NEW round, NEW i \in Lines(rows, annotator, round),
         ~Repeated(rows, Lines(rows, annotator, round))
  PROVE  /\ rows[i].key \in KeysOfLines(rows, Lines(rows, annotator, round))
         /\ RowOf(rows, rows[i].key, annotator, round) = rows[i]
<1>1. rows[i].key \in KeysOfLines(rows, Lines(rows, annotator, round))
  BY DEF KeysOfLines
<1>2. PICK j \in Lines(rows, annotator, round) :
         rows[j].key = rows[i].key /\ RowOf(rows, rows[i].key, annotator, round) = rows[j]
  BY <1>1, RowOfItsLines
<1>3. j = i
  BY <1>2 DEF Repeated
<1> QED BY <1>1, <1>2, <1>3

\* ExactlyOne says that a key has a row and does not repeat.
LEMMA ExactlyOneByLines ==
  ASSUME NEW rows, NEW annotator, NEW round, ~Repeated(rows, Lines(rows, annotator, round)),
         NEW k \in KeysOfLines(rows, Lines(rows, annotator, round))
  PROVE  ExactlyOne(rows, k, annotator, round)
BY DEF ExactlyOne, Repeated

\* The annotators of a file are finitely many.
LEMMA FiniteAnnotators ==
  ASSUME NEW rows \in Seq(LabelRows)
  PROVE  IsFiniteSet(InitialAnnotators(rows))
<1> DEFINE lines == {i \in DOMAIN rows : rows[i].annotator \in Annotators /\ rows[i].round = "initial"}
           f == [i \in lines |-> rows[i].annotator]
<1>1. DOMAIN rows = 1..Len(rows) /\ Len(rows) \in Nat
  BY LenProperties
<1>2. IsFiniteSet(lines)
  <2>1. IsFiniteSet(1..Len(rows)) BY <1>1, FS_Interval
  <2>2. lines \in SUBSET (1..Len(rows)) BY <1>1
  <2> HIDE DEF lines
  <2> QED BY <2>1, <2>2, FS_Subset
<1>3. f \in Surjection(lines, InitialAnnotators(rows))
  BY DEF Surjection, InitialAnnotators, Lines
<1> HIDE DEF f, lines
<1> QED BY <1>2, <1>3, FS_Surjection

\* There are two of them, one the owner, when the file names the owner and one other.
LEMMA OwnerAndOther ==
  ASSUME NEW S, IsFiniteSet(S)
  PROVE  /\ Cardinality(S) = 2 /\ Owner \in S => \E other \in S \ {Owner} : S = {Owner, other}
         /\ \A other : other # Owner /\ S = {Owner, other} => Cardinality(S) = 2
<1>1. ASSUME Cardinality(S) = 2, Owner \in S PROVE \E other \in S \ {Owner} : S = {Owner, other}
  <2>1. IsFiniteSet(S \ {Owner}) /\ Cardinality(S \ {Owner}) = 1
    BY <1>1, FS_RemoveElement
  <2>2. PICK other : S \ {Owner} = {other}
    BY <2>1, FS_Singleton
  <2> QED BY <1>1, <2>2
<1>2. ASSUME NEW other, other # Owner, S = {Owner, other} PROVE Cardinality(S) = 2
  <2>1. S = {Owner} \cup {other}
    BY <1>2
  <2>2. IsFiniteSet({Owner}) /\ Cardinality({Owner}) = 1
    BY FS_Singleton
  <2> QED BY <1>2, <2>1, <2>2, FS_AddElement
<1> QED BY <1>1, <1>2

\* What every check of resolve_gold_labels lets pass, together.
Accepted(rows) ==
    LET c == Coverage(rows)
        adjudications == Adjudications(rows)
    IN  /\ \A a \in Annotators : ~Repeated(rows, Lines(rows, a, "initial"))
        /\ Cardinality(InitialAnnotators(rows)) = 2 /\ Owner \in InitialAnnotators(rows)
        /\ DOMAIN c.other = DOMAIN c.owner
        /\ \A k \in DOMAIN c.owner : c.owner[k].text = c.other[k].text
        /\ ~Repeated(rows, Lines(rows, Owner, "adjudication"))
        /\ \A a \in Annotators \ {Owner} : Lines(rows, a, "adjudication") = {}
        /\ DOMAIN adjudications \cap Agreed(c) = {}
        /\ DOMAIN adjudications \subseteq DOMAIN c.owner
        /\ \A k \in DOMAIN adjudications : adjudications[k].text = c.owner[k].text
        /\ \A k \in DOMAIN c.owner \ Agreed(c) : k \in DOMAIN adjudications

LEMMA GoldErrorIsNotAccepted ==
  ASSUME NEW rows
  PROVE  /\ GoldError(rows) = None <=> Accepted(rows)
         /\ GoldError(rows) \in {None, "ValueError", "DualAnnotationError",
                                 "CalibrationBindingError"}
<1>1. PICK c : c = Coverage(rows)
  OBVIOUS
<1>2. PICK d : d = Adjudications(rows)
  OBVIOUS
<1>3. None \notin {"ValueError", "DualAnnotationError", "CalibrationBindingError"}
  BY KeyAssumption
<1>4. /\ CoverageError(rows) \in {None, "ValueError", "DualAnnotationError",
                                  "CalibrationBindingError"}
      /\ CoverageError(rows) = None <=>
           /\ \A a \in Annotators : ~Repeated(rows, Lines(rows, a, "initial"))
           /\ Cardinality(InitialAnnotators(rows)) = 2 /\ Owner \in InitialAnnotators(rows)
           /\ DOMAIN c.other = DOMAIN c.owner
           /\ \A k \in DOMAIN c.owner : c.owner[k].text = c.other[k].text
  BY <1>1, <1>3 DEF CoverageError
<1>5. /\ AdjudicationError(rows, c) \in {None, "ValueError", "DualAnnotationError"}
      /\ AdjudicationError(rows, c) = None <=>
           /\ ~Repeated(rows, Lines(rows, Owner, "adjudication"))
           /\ \A a \in Annotators \ {Owner} : Lines(rows, a, "adjudication") = {}
           /\ DOMAIN d \cap Agreed(c) = {}
           /\ DOMAIN d \subseteq DOMAIN c.owner
  BY <1>2, <1>3 DEF AdjudicationError
<1>6. GoldError(rows) =
        IF CoverageError(rows) # None THEN CoverageError(rows)
        ELSE IF AdjudicationError(rows, c) # None THEN AdjudicationError(rows, c)
        ELSE IF \E k \in DOMAIN d : d[k].text # c.owner[k].text
        THEN "CalibrationBindingError"
        ELSE IF \E k \in DOMAIN c.owner \ Agreed(c) : k \notin DOMAIN d
        THEN "DualAnnotationError"
        ELSE None
  BY <1>1, <1>2 DEF GoldError
<1>7. Accepted(rows) <=>
        /\ CoverageError(rows) = None /\ AdjudicationError(rows, c) = None
        /\ \A k \in DOMAIN d : d[k].text = c.owner[k].text
        /\ \A k \in DOMAIN c.owner \ Agreed(c) : k \in DOMAIN d
  BY <1>1, <1>2, <1>4, <1>5 DEF Accepted
<1> QED BY <1>3, <1>4, <1>5, <1>6, <1>7

\* The annotator the code takes for the other one.
Second(rows) == CHOOSE a \in InitialAnnotators(rows) : a # Owner

LEMMA CoverageByRows ==
  ASSUME NEW rows
  PROVE  LET c == Coverage(rows)
             ownerKeys == KeysOfLines(rows, Lines(rows, Owner, "initial"))
             otherKeys == KeysOfLines(rows, Lines(rows, Second(rows), "initial"))
             finalKeys == KeysOfLines(rows, Lines(rows, Owner, "adjudication"))
         IN  /\ DOMAIN c.owner = ownerKeys /\ DOMAIN c.other = otherKeys
             /\ \A k \in ownerKeys : c.owner[k] = RowOf(rows, k, Owner, "initial")
             /\ \A k \in otherKeys : c.other[k] = RowOf(rows, k, Second(rows), "initial")
             /\ DOMAIN Adjudications(rows) = finalKeys
             /\ \A k \in finalKeys : Adjudications(rows)[k] = RowOf(rows, k, Owner, "adjudication")
<1>1. /\ Coverage(rows).owner = ByKey(rows, Owner, "initial")
      /\ Coverage(rows).other = ByKey(rows, Second(rows), "initial")
      /\ Adjudications(rows) = ByKey(rows, Owner, "adjudication")
  BY DEF Coverage, OwnerLabels, Second, Adjudications
<1>2. \A a, r : /\ DOMAIN ByKey(rows, a, r) = KeysOfLines(rows, Lines(rows, a, r))
                /\ \A k \in KeysOfLines(rows, Lines(rows, a, r)) :
                       ByKey(rows, a, r)[k] = RowOf(rows, k, a, r)
  BY RowOfItsLines DEF ByKey
<1> QED BY <1>1, <1>2

\* In an accepted file every line is the owner's or the other annotator's, every
\* key of a line is doubly labelled, and its rows are about one text.
LEMMA AcceptedIsWellFormed ==
  ASSUME NEW rows \in Seq(LabelRows), Accepted(rows)
  PROVE  /\ WellFormed(rows)
         /\ Second(rows) \in Annotators \ {Owner}
         /\ InitialAnnotators(rows) = {Owner, Second(rows)}
<1> DEFINE other == Second(rows)
           ownerLines == Lines(rows, Owner, "initial")
           otherLines == Lines(rows, other, "initial")
           finalLines == Lines(rows, Owner, "adjudication")
           ownerKeys == KeysOfLines(rows, ownerLines)
           otherKeys == KeysOfLines(rows, otherLines)
           finalKeys == KeysOfLines(rows, finalLines)
           agree(k) == RowOf(rows, k, Owner, "initial").verdict = RowOf(rows, k, other, "initial").verdict
<1>1. /\ \A a \in Annotators : ~Repeated(rows, Lines(rows, a, "initial"))
      /\ Cardinality(InitialAnnotators(rows)) = 2 /\ Owner \in InitialAnnotators(rows)
      /\ ~Repeated(rows, finalLines)
      /\ \A a \in Annotators \ {Owner} : Lines(rows, a, "adjudication") = {}
  BY DEF Accepted
<1>2. PICK a \in InitialAnnotators(rows) \ {Owner} : InitialAnnotators(rows) = {Owner, a}
  BY <1>1, FiniteAnnotators, OwnerAndOther
<1>3. other = a /\ other \in Annotators \ {Owner} /\ InitialAnnotators(rows) = {Owner, other}
  BY <1>2 DEF Second, InitialAnnotators
<1>4. PICK c : c = Coverage(rows)
  OBVIOUS
<1>5. /\ DOMAIN c.owner = ownerKeys /\ DOMAIN c.other = otherKeys
      /\ \A k \in ownerKeys : c.owner[k] = RowOf(rows, k, Owner, "initial")
      /\ \A k \in otherKeys : c.other[k] = RowOf(rows, k, other, "initial")
      /\ DOMAIN Adjudications(rows) = finalKeys
      /\ \A k \in finalKeys : Adjudications(rows)[k] = RowOf(rows, k, Owner, "adjudication")
  BY <1>4, CoverageByRows
<1>6. /\ otherKeys = ownerKeys
      /\ \A k \in ownerKeys : c.owner[k].text = c.other[k].text
      /\ finalKeys \cap Agreed(c) = {} /\ finalKeys \subseteq ownerKeys
      /\ \A k \in finalKeys : Adjudications(rows)[k].text = c.owner[k].text
      /\ \A k \in ownerKeys \ Agreed(c) : k \in finalKeys
  BY <1>4, <1>5 DEF Accepted
<1>7. \A k \in ownerKeys : k \in Agreed(c) <=> agree(k)
  BY <1>5, <1>6 DEF Agreed
<1>8. /\ \A k \in ownerKeys : RowOf(rows, k, Owner, "initial").text = RowOf(rows, k, other, "initial").text
      /\ \A k \in finalKeys : RowOf(rows, k, Owner, "adjudication").text = RowOf(rows, k, Owner, "initial").text
      /\ \A k \in ownerKeys : ~agree(k) <=> k \in finalKeys
  BY <1>5, <1>6, <1>7
<1>9. \A i \in DOMAIN rows : i \in ownerLines \/ i \in otherLines \/ i \in finalLines
  <2> SUFFICES ASSUME NEW i \in DOMAIN rows PROVE i \in ownerLines \/ i \in otherLines \/ i \in finalLines
    OBVIOUS
  <2>1. rows[i].annotator \in Annotators /\ rows[i].round \in {"initial", "adjudication"}
    BY RowFields
  <2>2. CASE rows[i].round = "initial"
    <3>1. i \in Lines(rows, rows[i].annotator, "initial")
      BY <2>2 DEF Lines
    <3>2. rows[i].annotator \in InitialAnnotators(rows)
      BY <2>1, <3>1 DEF InitialAnnotators
    <3> QED BY <1>3, <3>1, <3>2
  <2>3. CASE rows[i].round = "adjudication"
    <3>1. i \in Lines(rows, rows[i].annotator, "adjudication")
      BY <2>3 DEF Lines
    <3> QED BY <1>1, <2>1, <3>1
  <2> QED BY <2>1, <2>2, <2>3
<1>10. /\ \A i \in ownerLines : rows[i].key \in ownerKeys /\ RowOf(rows, rows[i].key, Owner, "initial") = rows[i]
       /\ \A i \in otherLines : rows[i].key \in otherKeys /\ RowOf(rows, rows[i].key, other, "initial") = rows[i]
       /\ \A i \in finalLines : rows[i].key \in finalKeys /\ RowOf(rows, rows[i].key, Owner, "adjudication") = rows[i]
  BY <1>1, <1>3, OnlyRow, KeyAssumption
<1>11. \A i \in DOMAIN rows : rows[i].key \in ownerKeys /\ rows[i].text = RowOf(rows, rows[i].key, Owner, "initial").text
  BY <1>6, <1>8, <1>9, <1>10
<1>12. \A i \in DOMAIN rows : <<rows[i].annotator, rows[i].round>> \in
          {<<Owner, "initial">>, <<other, "initial">>, <<Owner, "adjudication">>}
  BY <1>9 DEF Lines
<1>13. rows # <<>>
  BY <1>1 DEF InitialAnnotators, Lines
<1>14. ASSUME NEW k \in {rows[i].key : i \in DOMAIN rows}
       PROVE  /\ ExactlyOne(rows, k, Owner, "initial")
              /\ ExactlyOne(rows, k, other, "initial")
              /\ \A i, j \in DOMAIN rows : rows[i].key = k /\ rows[j].key = k => rows[i].text = rows[j].text
              /\ IF agree(k) THEN k \notin finalKeys ELSE ExactlyOne(rows, k, Owner, "adjudication")
  <2>1. k \in ownerKeys /\ k \in otherKeys
    BY <1>6, <1>11
  <2>2. ExactlyOne(rows, k, Owner, "initial") /\ ExactlyOne(rows, k, other, "initial")
    BY <1>1, <1>3, <2>1, ExactlyOneByLines, KeyAssumption
  <2>3. \A i, j \in DOMAIN rows : rows[i].key = k /\ rows[j].key = k => rows[i].text = rows[j].text
    BY <1>11
  <2>4. IF agree(k) THEN k \notin finalKeys ELSE ExactlyOne(rows, k, Owner, "adjudication")
    BY <1>1, <1>8, <2>1, ExactlyOneByLines
  <2> QED BY <2>2, <2>3, <2>4
<1>15. WellFormed(rows)
  BY <1>3, <1>12, <1>13, <1>14 DEF WellFormed
<1> QED BY <1>3, <1>15

\* And the other way round.
LEMMA WellFormedIsAccepted ==
  ASSUME NEW rows \in Seq(LabelRows), WellFormed(rows)
  PROVE  Accepted(rows)
<1>1. PICK other \in Annotators \ {Owner} :
        /\ \A i \in DOMAIN rows : <<rows[i].annotator, rows[i].round>> \in
              {<<Owner, "initial">>, <<other, "initial">>, <<Owner, "adjudication">>}
        /\ \A k \in {rows[i].key : i \in DOMAIN rows} :
              /\ ExactlyOne(rows, k, Owner, "initial")
              /\ ExactlyOne(rows, k, other, "initial")
              /\ \A i, j \in DOMAIN rows : rows[i].key = k /\ rows[j].key = k => rows[i].text = rows[j].text
              /\ IF RowOf(rows, k, Owner, "initial").verdict = RowOf(rows, k, other, "initial").verdict
                 THEN k \notin KeysOfLines(rows, Lines(rows, Owner, "adjudication"))
                 ELSE ExactlyOne(rows, k, Owner, "adjudication")
  BY DEF WellFormed
<1> DEFINE ownerLines == Lines(rows, Owner, "initial")
           otherLines == Lines(rows, other, "initial")
           finalLines == Lines(rows, Owner, "adjudication")
           ownerKeys == KeysOfLines(rows, ownerLines)
           otherKeys == KeysOfLines(rows, otherLines)
           finalKeys == KeysOfLines(rows, finalLines)
           allKeys == {rows[i].key : i \in DOMAIN rows}
<1>2. rows # <<>> /\ DOMAIN rows # {}
  <2>1. rows # <<>>
    BY DEF WellFormed
  <2>2. Len(rows) \in Nat \ {0} /\ DOMAIN rows = 1..Len(rows)
    BY <2>1, EmptySeq, LenProperties
  <2> QED BY <2>1, <2>2
<1>3. /\ ownerKeys = allKeys /\ otherKeys = allKeys /\ finalKeys \subseteq allKeys
  <2>1. ownerKeys \subseteq allKeys /\ otherKeys \subseteq allKeys /\ finalKeys \subseteq allKeys
    BY DEF KeysOfLines, Lines
  <2>2. allKeys \subseteq ownerKeys /\ allKeys \subseteq otherKeys
    BY <1>1 DEF ExactlyOne
  <2> QED BY <2>1, <2>2
<1>4. \A a, r : (\E i \in DOMAIN rows : rows[i].annotator = a /\ rows[i].round = r)
         => <<a, r>> \in {<<Owner, "initial">>, <<other, "initial">>, <<Owner, "adjudication">>}
  BY <1>1
<1>5. \A a : Lines(rows, a, "initial") # {} => a \in {Owner, other}
  BY <1>4 DEF Lines
<1>6. \A a : Lines(rows, a, "adjudication") # {} => a = Owner
  BY <1>4 DEF Lines
<1>7. ownerLines # {} /\ otherLines # {}
  BY <1>2, <1>3 DEF KeysOfLines
<1>8. InitialAnnotators(rows) = {Owner, other}
  BY <1>5, <1>7, KeyAssumption DEF InitialAnnotators
<1>9. Second(rows) = other
  BY <1>8 DEF Second
<1>10. Cardinality(InitialAnnotators(rows)) = 2
  BY <1>8, FiniteAnnotators, OwnerAndOther
<1>11. \A k \in allKeys : /\ \A i, j \in ownerLines : rows[i].key = k /\ rows[j].key = k => i = j
                          /\ \A i, j \in otherLines : rows[i].key = k /\ rows[j].key = k => i = j
  BY <1>1 DEF ExactlyOne
<1>12. ~Repeated(rows, ownerLines) /\ ~Repeated(rows, otherLines)
  <2>1. \A i \in ownerLines \cup otherLines : rows[i].key \in allKeys
    BY DEF Lines
  <2> HIDE DEF allKeys, ownerLines, otherLines
  <2> QED BY <1>11, <2>1 DEF Repeated
<1>13. \A a \in Annotators : ~Repeated(rows, Lines(rows, a, "initial"))
  BY <1>5, <1>12 DEF Repeated
<1>14. \A k \in finalKeys : ExactlyOne(rows, k, Owner, "adjudication")
  BY <1>1, <1>3
<1>15. ~Repeated(rows, finalLines)
  BY <1>14 DEF ExactlyOne, Repeated, KeysOfLines
<1>16. PICK c : c = Coverage(rows)
  OBVIOUS
<1>17. /\ DOMAIN c.owner = ownerKeys /\ DOMAIN c.other = otherKeys
       /\ \A k \in ownerKeys : c.owner[k] = RowOf(rows, k, Owner, "initial")
       /\ \A k \in otherKeys : c.other[k] = RowOf(rows, k, other, "initial")
       /\ DOMAIN Adjudications(rows) = finalKeys
       /\ \A k \in finalKeys : Adjudications(rows)[k] = RowOf(rows, k, Owner, "adjudication")
  BY <1>9, <1>16, CoverageByRows
<1>18. \A k \in allKeys : \E i, j \in DOMAIN rows :
          /\ rows[i].key = k /\ c.owner[k] = rows[i] /\ rows[j].key = k /\ c.other[k] = rows[j]
  <2> SUFFICES ASSUME NEW k \in allKeys
               PROVE  \E i, j \in DOMAIN rows :
                        /\ rows[i].key = k /\ c.owner[k] = rows[i] /\ rows[j].key = k /\ c.other[k] = rows[j]
    OBVIOUS
  <2>1. \E i \in ownerLines : rows[i].key = k /\ c.owner[k] = rows[i]
    BY <1>3, <1>17, RowOfItsLines
  <2>2. \E j \in otherLines : rows[j].key = k /\ c.other[k] = rows[j]
    BY <1>3, <1>17, RowOfItsLines
  <2> QED BY <2>1, <2>2 DEF Lines
<1>19. \A k \in finalKeys : \E i \in DOMAIN rows : rows[i].key = k /\ Adjudications(rows)[k] = rows[i]
  <2> SUFFICES ASSUME NEW k \in finalKeys
               PROVE  \E i \in DOMAIN rows : rows[i].key = k /\ Adjudications(rows)[k] = rows[i]
    OBVIOUS
  <2>1. \E i \in finalLines : rows[i].key = k /\ Adjudications(rows)[k] = rows[i]
    BY <1>17, RowOfItsLines
  <2> QED BY <2>1 DEF Lines
<1>20. \A i, j \in DOMAIN rows : rows[i].key = rows[j].key => rows[i].text = rows[j].text
  BY <1>1
<1>21. \A k \in allKeys : c.owner[k].text = c.other[k].text
  BY <1>18, <1>20
<1>22. \A k \in finalKeys : Adjudications(rows)[k].text = c.owner[k].text
  <2> HIDE DEF allKeys, finalKeys
  <2> QED BY <1>3, <1>18, <1>19, <1>20
<1>23. \A k \in allKeys : k \in Agreed(c) <=> k \notin finalKeys
  <2>1. \A k \in allKeys : k \in Agreed(c) <=>
           RowOf(rows, k, Owner, "initial").verdict = RowOf(rows, k, other, "initial").verdict
    BY <1>3, <1>17 DEF Agreed
  <2> QED BY <1>1, <2>1 DEF ExactlyOne
<1> HIDE DEF ownerLines, otherLines, finalLines, ownerKeys, otherKeys, finalKeys, allKeys
<1>24. Owner \in InitialAnnotators(rows)
  BY <1>8
<1>25. ~Repeated(rows, Lines(rows, Owner, "adjudication"))
  BY <1>15 DEF finalLines
<1>26. /\ DOMAIN Adjudications(rows) \cap Agreed(c) = {}
       /\ \A k \in DOMAIN c.owner \ Agreed(c) : k \in DOMAIN Adjudications(rows)
       /\ DOMAIN Adjudications(rows) \subseteq DOMAIN c.owner
       /\ DOMAIN c.other = DOMAIN c.owner
  BY <1>3, <1>17, <1>23
<1> QED BY <1>3, <1>6, <1>10, <1>13, <1>16, <1>17, <1>21, <1>22, <1>24, <1>25, <1>26 DEF Accepted

\* resolve_gold_labels accepts the well-formed files and no other.
LEMMA GoldErrorIffIllFormed ==
  ASSUME NEW rows \in Seq(LabelRows)
  PROVE  GoldError(rows) = None <=> WellFormed(rows)
BY GoldErrorIsNotAccepted, AcceptedIsWellFormed, WellFormedIsAccepted

-----------------------------------------------------------------------------
(* Gold and the certificate *)

\* The gold of a file that is in order: a verdict for every key of a line, the
\* owner's last word, about the text of all the key's lines, and from an
\* adjudication where the two annotators differ.
LEMMA GoldOfWellFormed ==
  ASSUME NEW rows \in Seq(LabelRows), WellFormed(rows)
  PROVE  /\ DOMAIN Gold(rows) = {rows[i].key : i \in DOMAIN rows}
         /\ DOMAIN Gold(rows) \subseteq Keys
         /\ DOMAIN Coverage(rows).owner = DOMAIN Gold(rows)
         /\ \A k \in DOMAIN Gold(rows) :
               /\ Gold(rows)[k].verdict = LastWord(rows, k).verdict
               /\ Gold(rows)[k].source = "adjudication" <=>
                     Coverage(rows).owner[k].verdict # Coverage(rows).other[k].verdict
         /\ \A i \in DOMAIN rows : rows[i].text = Gold(rows)[rows[i].key].text
<1> DEFINE allKeys == {rows[i].key : i \in DOMAIN rows}
           finalKeys == KeysOfLines(rows, Lines(rows, Owner, "adjudication"))
<1>1. Accepted(rows)
  BY WellFormedIsAccepted
<1>2. PICK c : c = Coverage(rows)
  OBVIOUS
<1>3. PICK d : d = Adjudications(rows)
  OBVIOUS
<1>4. Gold(rows) = [k \in DOMAIN c.owner |->
            LET row == IF k \in Agreed(c) THEN c.owner[k] ELSE d[k]
            IN  [verdict |-> row.verdict, text |-> row.text,
                 source  |-> IF k \in Agreed(c) THEN "agreement" ELSE "adjudication"]]
  BY <1>2, <1>3 DEF Gold
<1>5. /\ DOMAIN Gold(rows) = DOMAIN c.owner
      /\ \A k \in DOMAIN c.owner :
            /\ k \in Agreed(c) => /\ Gold(rows)[k].verdict = c.owner[k].verdict
                                  /\ Gold(rows)[k].text = c.owner[k].text
                                  /\ Gold(rows)[k].source = "agreement"
            /\ k \notin Agreed(c) => /\ Gold(rows)[k].verdict = d[k].verdict
                                     /\ Gold(rows)[k].text = d[k].text
                                     /\ Gold(rows)[k].source = "adjudication"
  BY <1>4
<1>6. /\ DOMAIN c.owner = KeysOfLines(rows, Lines(rows, Owner, "initial"))
      /\ \A k \in DOMAIN c.owner : c.owner[k] = RowOf(rows, k, Owner, "initial")
      /\ DOMAIN d = finalKeys
      /\ \A k \in finalKeys : d[k] = RowOf(rows, k, Owner, "adjudication")
  BY <1>2, <1>3, CoverageByRows
<1>7. /\ finalKeys \cap Agreed(c) = {} /\ finalKeys \subseteq DOMAIN c.owner
      /\ \A k \in DOMAIN c.owner \ Agreed(c) : k \in finalKeys
  BY <1>1, <1>2, <1>3, <1>6 DEF Accepted
<1>8. DOMAIN c.owner = allKeys
  <2>1. allKeys \subseteq DOMAIN c.owner
    BY <1>6 DEF WellFormed, ExactlyOne
  <2>2. DOMAIN c.owner \subseteq allKeys
    BY <1>6 DEF KeysOfLines, Lines
  <2> QED BY <2>1, <2>2
<1>9. allKeys \subseteq Keys
  BY RowFields
<1>10. \A k \in DOMAIN c.owner : Gold(rows)[k].verdict = LastWord(rows, k).verdict
  BY <1>5, <1>6, <1>7 DEF LastWord
<1>11. \A k \in DOMAIN c.owner : Gold(rows)[k].source = "adjudication" <=>
           c.owner[k].verdict # c.other[k].verdict
  BY <1>5 DEF Agreed
<1>12. \A k \in DOMAIN c.owner : \E i \in DOMAIN rows :
          rows[i].key = k /\ Gold(rows)[k].text = rows[i].text
  <2> SUFFICES ASSUME NEW k \in DOMAIN c.owner
               PROVE  \E i \in DOMAIN rows : rows[i].key = k /\ Gold(rows)[k].text = rows[i].text
    OBVIOUS
  <2>1. \E i \in Lines(rows, Owner, "initial") : rows[i].key = k /\ c.owner[k] = rows[i]
    BY <1>6, RowOfItsLines
  <2>2. k \in finalKeys => \E i \in Lines(rows, Owner, "adjudication") : rows[i].key = k /\ d[k] = rows[i]
    BY <1>6, RowOfItsLines
  <2> QED BY <1>5, <1>7, <2>1, <2>2 DEF Lines
<1>13. \A i, j \in DOMAIN rows : rows[i].key = rows[j].key => rows[i].text = rows[j].text
  BY DEF WellFormed
<1>14. \A i \in DOMAIN rows : rows[i].text = Gold(rows)[rows[i].key].text
  <2> SUFFICES ASSUME NEW i \in DOMAIN rows PROVE rows[i].text = Gold(rows)[rows[i].key].text
    OBVIOUS
  <2>1. rows[i].key \in DOMAIN c.owner
    BY <1>8
  <2> QED BY <2>1, <1>12, <1>13
<1> QED BY <1>2, <1>5, <1>8, <1>9, <1>10, <1>11, <1>14

\* c is the certificate of judged and rows, and nothing stood in its way.
Certified(c, judged, rows, plants, probeIds, repeats, version, hash) ==
    /\ c = Result(judged, rows, plants, probeIds, repeats, version, hash)
    /\ rows \in Seq(LabelRows) /\ GoldError(rows) = None
    /\ PairError(judged, Gold(rows)) = None
    /\ StatisticsError(judged, rows, probeIds) = None

LEMMA PairedByText ==
  ASSUME NEW judged, NEW gold, PairError(judged, gold) = None
  PROVE  DOMAIN judged = DOMAIN gold /\ \A k \in DOMAIN gold : judged[k].text = gold[k].text
<1>1. None \notin {"CalibrationBindingError", "DualAnnotationError"}
  BY KeyAssumption
<1> QED BY <1>1 DEF PairError

\* The fields of a certificate that the properties speak of.
LEMMA ResultFields ==
  ASSUME NEW judged, NEW rows, NEW plants, NEW probeIds, NEW repeats, NEW version, NEW hash
  PROVE  LET r == Result(judged, rows, plants, probeIds, repeats, version, hash)
         IN  /\ r.judgeVersion = version /\ r.labelFileHash = hash
             /\ r.overall = AgreementSample(judged, Gold(rows))
             /\ r.perCandidate = PerCandidate(AgreementSample(judged, Gold(rows)))
             /\ r.ceiling = CeilingSample(rows, ValidKeys(judged))
             /\ r.nAdjudicated = Cardinality(Adjudicated(Gold(rows), ValidKeys(judged)))
BY DEF Result

\* A certificate is about the keys the judge gave a verdict on, its pairs are the
\* owner's last word and the judge's verdict, on one text.
LEMMA CertifiedSample ==
  ASSUME NEW c, NEW judged, NEW rows, NEW plants, NEW probeIds, NEW repeats, NEW version, NEW hash,
         Certified(c, judged, rows, plants, probeIds, repeats, version, hash)
  PROVE  /\ DOMAIN c.overall = ValidKeys(judged) /\ ValidKeys(judged) \subseteq DOMAIN judged
         /\ \A k \in DOMAIN c.overall :
               c.overall[k] = <<LastWord(rows, k).verdict, judged[k].verdict>>
         /\ \A i \in DOMAIN rows : rows[i].key \in DOMAIN judged
                                   /\ rows[i].text = judged[rows[i].key].text
<1>1. /\ rows \in Seq(LabelRows) /\ WellFormed(rows)
      /\ PairError(judged, Gold(rows)) = None
  BY GoldErrorIffIllFormed DEF Certified
<1>2. DOMAIN judged = DOMAIN Gold(rows) /\ \A k \in DOMAIN Gold(rows) : judged[k].text = Gold(rows)[k].text
  BY <1>1, PairedByText
<1>3. c.overall = AgreementSample(judged, Gold(rows))
  BY ResultFields DEF Certified
<1>4. /\ DOMAIN c.overall = ValidKeys(judged)
      /\ \A k \in ValidKeys(judged) : c.overall[k] = <<Gold(rows)[k].verdict, judged[k].verdict>>
  BY <1>3 DEF AgreementSample
<1>5. ValidKeys(judged) \subseteq DOMAIN judged
  BY DEF ValidKeys
<1>6. \A k \in DOMAIN Gold(rows) : Gold(rows)[k].verdict = LastWord(rows, k).verdict
  BY <1>1, GoldOfWellFormed
<1>7. \A i \in DOMAIN rows : rows[i].key \in DOMAIN Gold(rows) /\ rows[i].text = Gold(rows)[rows[i].key].text
  BY <1>1, GoldOfWellFormed
<1> QED BY <1>2, <1>4, <1>5, <1>6, <1>7

\* All of its parts are about the same keys.
LEMMA CertifiedPopulation ==
  ASSUME NEW c, NEW judged, NEW rows, NEW plants, NEW probeIds, NEW repeats, NEW version, NEW hash,
         Certified(c, judged, rows, plants, probeIds, repeats, version, hash)
  PROVE  /\ DOMAIN c.overall = {k \in DOMAIN judged : judged[k].verdict # None}
         /\ DOMAIN c.ceiling = DOMAIN c.overall
         /\ UNION {DOMAIN c.perCandidate[x] : x \in DOMAIN c.perCandidate} = DOMAIN c.overall
         /\ c.nAdjudicated = Cardinality({k \in DOMAIN c.ceiling : c.ceiling[k][1] # c.ceiling[k][2]})
<1> DEFINE valid == ValidKeys(judged)
           both == Coverage(rows)
<1>1. /\ rows \in Seq(LabelRows) /\ WellFormed(rows)
      /\ PairError(judged, Gold(rows)) = None
  BY GoldErrorIffIllFormed DEF Certified
<1>2. DOMAIN judged = DOMAIN Gold(rows)
  BY <1>1, PairedByText
<1>3. DOMAIN c.overall = valid /\ valid \subseteq DOMAIN judged
  BY CertifiedSample
<1>4. DOMAIN Gold(rows) \subseteq Keys /\ DOMAIN both.owner = DOMAIN Gold(rows)
  BY <1>1, GoldOfWellFormed
<1>5. c.ceiling = [k \in DOMAIN both.owner \cap valid |-> <<both.owner[k].verdict, both.other[k].verdict>>]
  <2>1. c.ceiling = CeilingSample(rows, ValidKeys(judged))
    BY ResultFields DEF Certified
  <2> QED BY <2>1 DEF CeilingSample
<1>6. DOMAIN c.ceiling = valid
  BY <1>2, <1>3, <1>4, <1>5
<1>7. UNION {DOMAIN c.perCandidate[x] : x \in DOMAIN c.perCandidate} = valid
  <2>1. c.overall = AgreementSample(judged, Gold(rows)) /\ c.perCandidate = PerCandidate(c.overall)
    BY ResultFields DEF Certified
  <2>2. DOMAIN c.perCandidate = {k.candidate : k \in valid}
    BY <1>3, <2>1 DEF PerCandidate
  <2>3. \A x \in DOMAIN c.perCandidate :
           c.perCandidate[x] = SubSample(c.overall, {k \in Keys : k.candidate = x})
    BY <2>1 DEF PerCandidate
  <2>4. \A x \in DOMAIN c.perCandidate :
           DOMAIN c.perCandidate[x] = valid \cap {k \in Keys : k.candidate = x}
    BY <1>3, <2>3 DEF SubSample
  <2>5. \A k \in valid : k \in Keys
    BY <1>2, <1>3, <1>4
  <2> HIDE DEF valid
  <2> QED BY <2>2, <2>4, <2>5
<1>8. c.nAdjudicated = Cardinality({k \in DOMAIN c.ceiling : c.ceiling[k][1] # c.ceiling[k][2]})
  <2>1. c.nAdjudicated = Cardinality({k \in DOMAIN Gold(rows) \cap valid : Gold(rows)[k].source = "adjudication"})
    BY ResultFields DEF Certified, Adjudicated
  <2>2. \A k \in valid : Gold(rows)[k].source = "adjudication" <=> both.owner[k].verdict # both.other[k].verdict
    BY <1>1, <1>2, <1>3, GoldOfWellFormed
  <2>3. \A k \in valid : c.ceiling[k][1] = both.owner[k].verdict /\ c.ceiling[k][2] = both.other[k].verdict
    BY <1>2, <1>3, <1>4, <1>5
  <2>4. {k \in DOMAIN Gold(rows) \cap valid : Gold(rows)[k].source = "adjudication"}
          = {k \in DOMAIN c.ceiling : c.ceiling[k][1] # c.ceiling[k][2]}
    <3> HIDE DEF valid, both
    <3> QED BY <1>2, <1>3, <1>6, <2>2, <2>3
  <2> QED BY <2>1, <2>4
<1> QED BY <1>3, <1>6, <1>7, <1>8 DEF ValidKeys

-----------------------------------------------------------------------------
(* The inductive invariant *)

\* The outputs of triples, of the items judged with or without the probe set.
AreTexts(texts, probe) ==
    /\ texts \in [DOMAIN texts -> Texts]
    /\ DOMAIN texts \subseteq Keys
    /\ \A k \in DOMAIN texts : k.item \in MainItems \cup ProbeIds(probe)

\* The overlay is in order and its texts are in place.
AreOverlaid(rows, probe, texts) ==
    /\ OverlayError(rows, ProbeIds(probe), ProbeKeys(texts)) = None
    /\ \A k \in OverlayKeys(rows) :
          \E i \in DOMAIN rows : rows[i] = [key |-> k, text |-> texts[k]]

\* The judge's answers are about these texts.
AreJudged(judged, texts) ==
    /\ judged \in [DOMAIN texts -> [verdict : Verdicts \cup {None}, text : Texts]]
    /\ \A k \in DOMAIN texts : judged[k].text = texts[k]

Computed ==
    \/ pc \in {"certifying", "persisting"}
    \/ pc = "ended" /\ outcome = "ok"
    \/ mem.result # None

ProbeIdsOf(j) == {k.item : k \in j.probe}

\* What the command holds has the fields of NoMemory.
IsMemory(m) ==
    /\ m = [offline |-> m.offline, labels |-> m.labels, overlay |-> m.overlay, probe |-> m.probe,
            judgeVersion |-> m.judgeVersion, hash |-> m.hash, texts |-> m.texts,
            judged |-> m.judged, repeats |-> m.repeats, result |-> m.result]
    /\ m.offline \in BOOLEAN /\ m.probe \in BOOLEAN

\* The faults that were still to come when the latest live calibration ended.
FaultsThen == IF settled = None THEN MaxFaults ELSE settled.faultsLeft

Shaped ==
    /\ IsMemory(mem)
    /\ budget["fault"] \in 0..MaxFaults /\ FaultsThen \in budget["fault"]..MaxFaults

\* Where the command is tells what it holds.
Staged ==
    /\ pc = "idle" => mem = NoMemory
    /\ pc \in {"idle", "runs"} => spent = {}
    /\ pc = "overlaying" => spent \subseteq {"runs"}
    /\ pc # "ended" => outcome = None
    /\ pc \in {"runs", "overlaying", "judging"} => mem.result = None
    /\ pc \in {"runs", "overlaying", "judging", "persisting"} => ~mem.offline
    /\ pc # "idle" => mem.judgeVersion \in 1..NumRubrics
    /\ pc \in {"overlaying", "judging"} => AreTexts(mem.texts, mem.probe)

\* No command is past its first check with labels it would refuse, nor has spent
\* a judge call of its own over an overlay it would refuse.
Checked ==
    /\ pc \notin {"idle", "ended"} \/ spent # {} => GoldError(mem.labels) = None
    /\ pc = "judging" \/ "judge" \in spent => AreOverlaid(mem.overlay, mem.probe, mem.texts)

\* What a live command computed is the certificate of what it judged.
LiveComputed ==
    Computed /\ ~mem.offline =>
        /\ AreTexts(mem.texts, mem.probe)
        /\ AreOverlaid(mem.overlay, mem.probe, mem.texts)
        /\ AreJudged(mem.judged, mem.texts)
        /\ mem.repeats \in UNION {[keys -> RepeatAnswers] : keys \in SUBSET Keys}
        /\ Certified(mem.result, mem.judged, mem.labels, mem.overlay, ProbeIds(mem.probe),
                     mem.repeats, mem.judgeVersion, mem.hash)

\* What an offline one computed is the certificate of the persisted judgments.
OfflineComputed ==
    Computed /\ mem.offline =>
        /\ judgments # None
        /\ mem.judged = judgments.judged /\ mem.judgeVersion = judgments.judgeVersion
        /\ Certified(mem.result, judgments.judged, mem.labels, mem.overlay, ProbeIdsOf(judgments),
                     judgments.repeats, judgments.judgeVersion, mem.labels)

\* Why an offline calibration of these files would end in an exception.
OfflineFails(j, rows, plants, version) ==
    \/ j.judgeVersion # version
    \/ GoldError(rows) # None
    \/ OverlayError(plants, ProbeIdsOf(j), j.probe) # None
    \/ PairError(j.judged, Gold(rows)) # None
    \/ StatisticsError(j.judged, rows, ProbeIdsOf(j)) # None

Refused ==
    pc = "ended" /\ mem.offline /\ outcome \notin {"ok", "killed", "OSError"} =>
        judgments = None \/ OfflineFails(judgments, mem.labels, mem.overlay, mem.judgeVersion)

\* The persisted judgments are those of the latest live calibration that ended.
Kept ==
    \/ judgments = None /\ settled = None
    \/ /\ judgments \in JudgmentFiles
       /\ AreTexts(settled.texts, settled.probe)
       /\ AreOverlaid(settled.overlay, settled.probe, settled.texts)
       /\ AreJudged(judgments.judged, settled.texts)
       /\ judgments.probe = ProbeKeys(settled.texts)
       /\ judgments.judgeVersion = settled.judge
       /\ Certified(settled.certificate, judgments.judged, settled.labels, settled.overlay,
                    ProbeIds(settled.probe), judgments.repeats, settled.judge,
                    settled.certificate.labelFileHash)

\* The certificate on disk goes with the judgments on disk, or with those about
\* to be written.
Paired ==
    /\ pc = "persisting" => certificate = mem.result
    /\ pc # "persisting" /\ certificate # None /\ Undisturbed =>
          /\ certificate.judgeVersion = judgments.judgeVersion
          /\ \A k \in DOMAIN certificate.overall :
                 certificate.overall[k][2] = judgments.judged[k].verdict

IInv == /\ TypeOK /\ Shaped /\ Staged /\ Checked
        /\ LiveComputed /\ OfflineComputed /\ Refused /\ Kept /\ Paired

-----------------------------------------------------------------------------
(* What the steps compute *)

LEMMA KeyItems ==
  ASSUME NEW k \in Keys
  PROVE  k.candidate \in Candidates /\ k.item \in Items
BY KeyAssumption, CalibrationAssumption

\* Triples are made of outputs.
LEMMA TriplesAreTexts ==
  ASSUME NEW run \in Outputs, NEW probe
  PROVE  AreTexts(TriplesOf(run, MainItems \cup ProbeIds(probe)), probe)
<1> DEFINE items == MainItems \cup ProbeIds(probe)
           ks == {key \in Keys : key.item \in items /\ run[key.candidate][key.item] # None}
<1>1. TriplesOf(run, items) = [k \in ks |-> run[k.candidate][k.item]]
  BY DEF TriplesOf
<1>2. run \in [Candidates -> [Items -> Texts \cup {None}]]
  BY CalibrationAssumption
<1>3. \A k \in ks : run[k.candidate][k.item] \in Texts
  <2> SUFFICES ASSUME NEW k \in ks PROVE run[k.candidate][k.item] \in Texts
    OBVIOUS
  <2>1. k.candidate \in Candidates /\ k.item \in Items
    BY KeyItems
  <2>2. run[k.candidate] \in [Items -> Texts \cup {None}]
    BY <1>2, <2>1
  <2>3. run[k.candidate][k.item] \in Texts \cup {None}
    BY <2>1, <2>2
  <2> QED BY <2>3
<1>4. TriplesOf(run, items) \in [ks -> Texts] /\ DOMAIN TriplesOf(run, items) = ks
  BY <1>1, <1>3
<1>5. ks \subseteq Keys /\ \A k \in ks : k.item \in items
  OBVIOUS
<1> HIDE DEF ks
<1> QED BY <1>4, <1>5 DEF AreTexts

\* An overlay puts its texts in the place of others, for no other key.
LEMMA OverlayKeepsTexts ==
  ASSUME NEW rows \in Seq(OverlayRows), NEW probe, NEW texts, AreTexts(texts, probe)
  PROVE  /\ AreTexts(ApplyOverlay(texts, rows), probe)
         /\ ProbeKeys(ApplyOverlay(texts, rows)) = ProbeKeys(texts)
         /\ OverlayError(rows, ProbeIds(probe), ProbeKeys(texts)) = None
               => AreOverlaid(rows, probe, ApplyOverlay(texts, rows))
<1> DEFINE row(k) == rows[CHOOSE i \in DOMAIN rows : rows[i].key = k]
<1>1. PICK new : new = ApplyOverlay(texts, rows)
  OBVIOUS
<1>2. /\ new = [k \in DOMAIN texts |-> IF k \in OverlayKeys(rows) THEN row(k).text ELSE texts[k]]
      /\ DOMAIN new = DOMAIN texts
  BY <1>1 DEF ApplyOverlay
<1>3. \A i \in DOMAIN rows : rows[i] \in OverlayRows
  BY ElementOfSeq, LenProperties
<1>4. \A i \in DOMAIN rows : /\ rows[i] = [key |-> rows[i].key, text |-> rows[i].text]
                             /\ rows[i].text \in Texts
  BY <1>3 DEF OverlayRows
<1>5. \A k \in OverlayKeys(rows) : \E i \in DOMAIN rows : rows[i].key = k /\ row(k) = rows[i]
  BY DEF OverlayKeys
<1> HIDE DEF row
<1>6. \A k \in DOMAIN texts : texts[k] \in Texts
  BY DEF AreTexts
<1>7. \A k \in DOMAIN new : new[k] \in Texts
  BY <1>2, <1>4, <1>5, <1>6
<1>8. AreTexts(new, probe)
  BY <1>2, <1>7 DEF AreTexts
<1>9. ProbeKeys(new) = ProbeKeys(texts)
  BY <1>2 DEF ProbeKeys
<1>10. ASSUME OverlayError(rows, ProbeIds(probe), ProbeKeys(texts)) = None
       PROVE  AreOverlaid(rows, probe, new)
  <2>1. \A i \in DOMAIN rows : rows[i].key \in ProbeKeys(texts)
    BY <1>10, KeyAssumption DEF OverlayError
  <2>2. \A k \in OverlayKeys(rows) : k \in DOMAIN texts
    BY <2>1 DEF OverlayKeys, ProbeKeys
  <2>3. \A k \in OverlayKeys(rows) : new[k] = row(k).text
    BY <1>2, <2>2
  <2>4. \A k \in OverlayKeys(rows) : \E i \in DOMAIN rows : rows[i] = [key |-> k, text |-> new[k]]
    BY <1>4, <1>5, <2>3
  <2> QED BY <1>9, <1>10, <2>4 DEF AreOverlaid
<1> QED BY <1>1, <1>8, <1>9, <1>10

\* Annotators sign rows about what they are shown.
LEMMA SheetsAreLabels ==
  ASSUME NEW texts, NEW probe, AreTexts(texts, probe), NEW l \in Labellings
  PROVE  Sheets(texts, l) \in Seq(LabelRows)
<1> DEFINE Rows(ks, annotator, round, verdicts) ==
             [i \in DOMAIN ks |-> [key |-> ks[i], annotator |-> annotator, round |-> round,
                                   verdict |-> verdicts[ks[i]], text |-> texts[ks[i]]]]
           split == {k \in DOMAIN texts : l.owner[k] # l.other[k]}
<1>1. /\ l.by \in Annotators /\ Owner \in Annotators
      /\ l.owner \in [Keys -> Verdicts] /\ l.other \in [Keys -> Verdicts] /\ l.final \in [Keys -> Verdicts]
  BY CalibrationAssumption, KeyAssumption
<1>2. DOMAIN texts \in SUBSET Keys /\ split \in SUBSET Keys /\ split \in SUBSET (DOMAIN texts)
  BY DEF AreTexts
<1>3. InOrder(DOMAIN texts) \in Seq(DOMAIN texts) /\ InOrder(split) \in Seq(DOMAIN texts)
  <2>1. InOrder(DOMAIN texts) \in Seq(DOMAIN texts)
    BY <1>2, InOrderListsThem
  <2>2. InOrder(split) \in Seq(split)
    BY <1>2, InOrderListsThem
  <2> HIDE DEF split
  <2> QED BY <1>2, <2>1, <2>2
<1>4. \A ks \in Seq(DOMAIN texts), who \in Annotators, round \in {"initial", "adjudication"},
         verdicts \in [Keys -> Verdicts] : Rows(ks, who, round, verdicts) \in Seq(LabelRows)
  <2> SUFFICES ASSUME NEW ks \in Seq(DOMAIN texts), NEW who \in Annotators,
                      NEW round \in {"initial", "adjudication"}, NEW verdicts \in [Keys -> Verdicts]
               PROVE  Rows(ks, who, round, verdicts) \in Seq(LabelRows)
    OBVIOUS
  <2>1. DOMAIN ks = 1..Len(ks) /\ Len(ks) \in Nat
    BY LenProperties
  <2>2. \A i \in 1..Len(ks) : ks[i] \in DOMAIN texts
    BY ElementOfSeq
  <2>3. \A i \in 1..Len(ks) : ks[i] \in Keys /\ texts[ks[i]] \in Texts
    BY <1>2, <2>2 DEF AreTexts
  <2>4. \A i \in 1..Len(ks) : [key |-> ks[i], annotator |-> who, round |-> round,
                               verdict |-> verdicts[ks[i]], text |-> texts[ks[i]]] \in LabelRows
    BY <2>3 DEF LabelRows
  <2>5. Rows(ks, who, round, verdicts) \in [1..Len(ks) -> LabelRows]
    BY <2>1, <2>4
  <2> QED BY <2>1, <2>5
<1>5. Sheets(texts, l) = (Rows(InOrder(DOMAIN texts), Owner, "initial", l.owner)
                          \o Rows(InOrder(DOMAIN texts), l.by, "initial", l.other))
                         \o Rows(InOrder(split), Owner, "adjudication", l.final)
  BY DEF Sheets
<1>6. /\ Rows(InOrder(DOMAIN texts), Owner, "initial", l.owner) \in Seq(LabelRows)
      /\ Rows(InOrder(DOMAIN texts), l.by, "initial", l.other) \in Seq(LabelRows)
      /\ Rows(InOrder(split), Owner, "adjudication", l.final) \in Seq(LabelRows)
  BY <1>1, <1>3, <1>4
<1> HIDE DEF Rows
<1> QED BY <1>5, <1>6, ConcatProperties

\* A file with a line lost is a file of lines.
LEMMA WithoutIsSeq ==
  ASSUME NEW S, NEW seq \in Seq(S), NEW i \in DOMAIN seq
  PROVE  Without(seq, i) \in Seq(S)
<1>1. i \in 1..Len(seq) /\ Len(seq) \in Nat
  BY LenProperties
<1>2. SubSeq(seq, 1, i - 1) \in Seq(S) /\ SubSeq(seq, i + 1, Len(seq)) \in Seq(S)
  <2>1. \A j \in 1..Len(seq) : seq[j] \in S
    BY ElementOfSeq
  <2> QED BY <1>1, <2>1, SubSeqProperties
<1> QED BY <1>2, ConcatProperties DEF Without

\* Two probe sets make no difference to what judged comes to.
SameStatistics(judged, keys, P, Q) ==
    /\ \A rows : OverlayError(rows, Q, keys) = None => OverlayError(rows, P, keys) = None
    /\ \A rows : StatisticsError(judged, rows, P) = StatisticsError(judged, rows, Q)
    /\ \A rows, plants, repeats, version, hash :
          Result(judged, rows, plants, P, repeats, version, hash)
            = Result(judged, rows, plants, Q, repeats, version, hash)

\* judgments.jsonl tells the probe set by its keys: where at least one candidate
\* answered a probe email, the statistics are those of the live command.
LEMMA SameDisclosure ==
  ASSUME NEW judged, NEW texts, NEW probe \in BOOLEAN, AreTexts(texts, probe),
         DOMAIN judged = DOMAIN texts, probe => ProbeKeys(texts) # {},
         NEW P, P = {k.item : k \in ProbeKeys(texts)}
  PROVE  SameStatistics(judged, ProbeKeys(texts), P, ProbeIds(probe))
<1>1. MainItems \cap ProbeItems = {} /\ ProbeItems # {}
  BY CalibrationAssumption
<1>2. \A k \in DOMAIN texts : k \in ProbeKeys(texts) <=> k.item \in ProbeItems
  BY DEF ProbeKeys
<1>3. ProbeKeys(texts) \subseteq DOMAIN texts
  BY DEF ProbeKeys
<1>4. \A k \in DOMAIN texts : k.item \in P <=> k.item \in ProbeIds(probe)
  <2>1. \A k \in DOMAIN texts : k.item \in MainItems \cup ProbeIds(probe)
    BY DEF AreTexts
  <2>2. ProbeIds(probe) \subseteq ProbeItems
    BY DEF ProbeIds
  <2> QED BY <1>1, <1>2, <1>3, <2>1, <2>2
<1>5. P = {} <=> ProbeIds(probe) = {}
  <2>1. probe => P # {} /\ ProbeIds(probe) # {}
    BY <1>1 DEF ProbeIds
  <2>2. ~probe => P = {} /\ ProbeIds(probe) = {}
    BY <1>3, <1>4 DEF ProbeIds
  <2> QED BY <2>1, <2>2
<1>6. \A gold : RealOnly(AgreementSample(judged, gold), P) = RealOnly(AgreementSample(judged, gold), ProbeIds(probe))
  <2> SUFFICES ASSUME NEW gold
               PROVE  RealOnly(AgreementSample(judged, gold), P)
                        = RealOnly(AgreementSample(judged, gold), ProbeIds(probe))
    OBVIOUS
  <2>1. PICK sample : sample = AgreementSample(judged, gold)
    OBVIOUS
  <2>2. DOMAIN sample \subseteq DOMAIN texts
    BY <2>1 DEF AgreementSample, ValidKeys
  <2>3. DOMAIN sample \cap {k \in Keys : k.item \notin P}
          = DOMAIN sample \cap {k \in Keys : k.item \notin ProbeIds(probe)}
    BY <1>4, <2>2
  <2>4. SubSample(sample, {k \in Keys : k.item \notin P})
          = SubSample(sample, {k \in Keys : k.item \notin ProbeIds(probe)})
    BY <2>3 DEF SubSample
  <2>5. RealOnly(sample, P) = RealOnly(sample, ProbeIds(probe))
    BY <2>4 DEF RealOnly
  <2> QED BY <2>1, <2>5
<1>7. \A rows : StatisticsError(judged, rows, P) = StatisticsError(judged, rows, ProbeIds(probe))
  BY <1>5, <1>6 DEF StatisticsError
<1>8. \A rows, plants, repeats, version, hash :
               Result(judged, rows, plants, P, repeats, version, hash)
                 = Result(judged, rows, plants, ProbeIds(probe), repeats, version, hash)
  BY <1>5, <1>6 DEF Result
<1>9. ASSUME NEW rows, OverlayError(rows, ProbeIds(probe), ProbeKeys(texts)) = None
      PROVE  OverlayError(rows, P, ProbeKeys(texts)) = None
  <2>1. /\ ~ \E i, j \in DOMAIN rows : i # j /\ rows[i].key = rows[j].key
        /\ \A i \in DOMAIN rows : rows[i].key.item \in ProbeIds(probe)
        /\ \A i \in DOMAIN rows : rows[i].key \in ProbeKeys(texts)
    BY <1>9, KeyAssumption DEF OverlayError
  <2>2. \A i \in DOMAIN rows : rows[i].key.item \in P
    BY <2>1
  <2> QED BY <2>1, <2>2 DEF OverlayError
<1> QED BY <1>7, <1>8, <1>9 DEF SameStatistics

\* The exceptions have names, and none of them is "ok" or the kill.
Exceptions == {"ValueError", "DualAnnotationError", "CalibrationBindingError",
               "PerturbationOverlayError", "StaleJudgmentsError", "FileNotFoundError"}

LEMMA ExceptionsHaveNames ==
  /\ \A rows : GoldError(rows) \in Exceptions \cup {None}
  /\ \A plants, ids, ks : OverlayError(plants, ids, ks) \in Exceptions \cup {None}
  /\ \A judged, gold : PairError(judged, gold) \in Exceptions \cup {None}
  /\ \A judged, rows, ids : StatisticsError(judged, rows, ids) \in Exceptions \cup {None}
  /\ \A j : OfflineError(j) \in Exceptions \cup {None}
  /\ None \notin Exceptions
<1>1. \A rows : GoldError(rows) \in Exceptions \cup {None}
  BY GoldErrorIsNotAccepted DEF Exceptions
<1>2. \A plants, ids, ks : OverlayError(plants, ids, ks) \in Exceptions \cup {None}
  BY DEF OverlayError, Exceptions
<1>3. \A judged, gold : PairError(judged, gold) \in Exceptions \cup {None}
  BY DEF PairError, Exceptions
<1>4. \A judged, rows, ids : StatisticsError(judged, rows, ids) \in Exceptions \cup {None}
  BY DEF StatisticsError, Exceptions
<1>5. "StaleJudgmentsError" \in Exceptions
  BY DEF Exceptions
<1>6. \A j : OfflineError(j) \in Exceptions \cup {None}
  <2> SUFFICES ASSUME NEW j PROVE OfflineError(j) \in Exceptions \cup {None}
    OBVIOUS
  <2>1. /\ OverlayError(overlay, {k.item : k \in j.probe}, j.probe) \in Exceptions \cup {None}
        /\ PairError(j.judged, Gold(labels)) \in Exceptions \cup {None}
        /\ StatisticsError(j.judged, labels, {k.item : k \in j.probe}) \in Exceptions \cup {None}
        /\ GoldError(labels) \in Exceptions \cup {None}
    BY <1>1, <1>2, <1>3, <1>4
  <2> QED BY <1>5, <2>1 DEF OfflineError
<1>7. None \notin Exceptions
  BY KeyAssumption, CalibrationAssumption DEF Exceptions
<1> QED BY <1>1, <1>2, <1>3, <1>4, <1>6, <1>7

\* An offline calibration raises exactly when there is a reason to.
LEMMA OfflineErrorIsFailure ==
  ASSUME NEW j
  PROVE  OfflineError(j) # None <=> OfflineFails(j, labels, overlay, rubric)
<1>1. None \notin Exceptions /\ "StaleJudgmentsError" \in Exceptions
  BY ExceptionsHaveNames DEF Exceptions
<1> QED BY <1>1 DEF OfflineError, OfflineFails, ProbeIdsOf

-----------------------------------------------------------------------------
(* Init and the steps of the people around *)

Inner == Shaped /\ Staged /\ Checked /\ LiveComputed /\ OfflineComputed /\ Refused /\ Kept /\ Paired

LEMMA EmptyMemory ==
  /\ NoMemory.offline = FALSE /\ NoMemory.labels = <<>> /\ NoMemory.overlay = <<>>
  /\ NoMemory.probe = FALSE /\ NoMemory.judgeVersion = 0 /\ NoMemory.texts = None
  /\ NoMemory.result = None
  /\ IsMemory(NoMemory)
BY DEF NoMemory, IsMemory

\* TypeOK, of what the command holds.
MemoryOK(m) ==
    /\ m.labels \in Seq(LabelRows) /\ m.overlay \in Overlays /\ m.judgeVersion \in 0..NumRubrics
    /\ m.texts # None => \A k \in DOMAIN m.texts : m.texts[k] \in Texts

LEMMA EmptyMemoryOK == MemoryOK(NoMemory)
<1>1. <<>> \in Overlays /\ NumRubrics \in Nat
  BY CalibrationAssumption
<1>2. <<>> \in Seq(LabelRows)
  BY EmptySeq
<1> QED BY <1>1, <1>2, EmptyMemory DEF MemoryOK

\* TypeOK, by parts.
FilesOK ==
    /\ runs = None \/ runs \in Outputs
    /\ labels \in Seq(LabelRows) /\ overlay \in Overlays /\ probeFile \in BOOLEAN
    /\ rubric \in 1..NumRubrics

CommandOK ==
    /\ pc \in {"idle", "runs", "overlaying", "judging", "certifying", "persisting", "ended"}
    /\ MemoryOK(mem) /\ spent \subseteq {"runs", "judge"}

LEMMA TypeParts ==
  /\ TypeOK <=> FilesOK /\ CommandOK /\ budget \in [Kinds -> Nat]
  /\ TypeOK' <=> FilesOK' /\ CommandOK' /\ budget' \in [Kinds -> Nat]
BY DEF TypeOK, FilesOK, CommandOK, MemoryOK

LEMMA InitEstablishes == Init => IInv
<1> SUFFICES ASSUME Init PROVE IInv
  OBVIOUS
<1>1. /\ runs = None /\ labels = <<>> /\ overlay \in Overlays /\ probeFile \in BOOLEAN
      /\ judgments = None /\ certificate = None /\ rubric = 1 /\ pc = "idle"
      /\ mem = NoMemory /\ spent = {} /\ outcome = None /\ settled = None
  BY DEF Init
<1>2. budget \in [Kinds -> Nat] /\ budget["fault"] = MaxFaults
  BY CalibrationAssumption DEF Init, Kinds
<1>3. NumRubrics \in Nat \ {0} /\ MaxFaults \in Nat
  BY CalibrationAssumption
<1>4. TypeOK
  <2>1. FilesOK
    BY <1>1, <1>3, EmptySeq DEF FilesOK
  <2>2. CommandOK
    BY <1>1, EmptyMemoryOK DEF CommandOK
  <2> QED BY <1>2, <2>1, <2>2, TypeParts
<1>5. Shaped
  BY <1>1, <1>2, <1>3, EmptyMemory DEF Shaped, FaultsThen
<1>6. Staged /\ Checked
  BY <1>1 DEF Staged, Checked
<1>7. ~Computed
  BY <1>1, EmptyMemory DEF Computed
<1>8. LiveComputed /\ OfflineComputed /\ Refused
  BY <1>1, <1>7 DEF LiveComputed, OfflineComputed, Refused
<1>9. Kept /\ Paired
  BY <1>1 DEF Kept, Paired
<1> QED BY <1>4, <1>5, <1>6, <1>8, <1>9 DEF IInv

\* What no step of the people touches is all that the inner invariants speak of.
LEMMA InnerFrame ==
  ASSUME Inner, budget'["fault"] = budget["fault"],
         UNCHANGED <<pc, mem, spent, outcome, settled, judgments, certificate>>
  PROVE  Inner'
<1>1. /\ pc' = pc /\ mem' = mem /\ spent' = spent /\ outcome' = outcome /\ settled' = settled
      /\ judgments' = judgments /\ certificate' = certificate
  OBVIOUS
<1>2. Shaped' /\ Staged' /\ Checked'
  BY <1>1 DEF Inner, Shaped, FaultsThen, Staged, Checked
<1>3. Computed' = Computed
  BY <1>1 DEF Computed
<1>4. LiveComputed' /\ OfflineComputed' /\ Refused'
  BY <1>1, <1>3 DEF Inner, LiveComputed, OfflineComputed, Refused
<1>5. Kept' /\ Paired'
  BY <1>1 DEF Inner, Kept, Paired, Undisturbed
<1> QED BY <1>2, <1>4, <1>5 DEF Inner

LEMMA SpendOne ==
  ASSUME budget \in [Kinds -> Nat], NEW kind \in Kinds, Spend(kind)
  PROVE  /\ budget' \in [Kinds -> Nat] /\ budget'[kind] < budget[kind]
         /\ \A other \in Kinds \ {kind} : budget'[other] = budget[other]
BY DEF Spend

LEMMA SpendNoFault ==
  ASSUME budget \in [Kinds -> Nat], Spend("edit") \/ Spend("regenerate")
  PROVE  budget' \in [Kinds -> Nat] /\ budget'["fault"] = budget["fault"]
<1>1. "edit" \in Kinds /\ "regenerate" \in Kinds /\ "fault" \in Kinds
  BY DEF Kinds
<1>2. CASE Spend("edit")
  BY <1>1, <1>2, SpendOne
<1>3. CASE Spend("regenerate")
  BY <1>1, <1>3, SpendOne
<1> QED BY <1>2, <1>3

\* Editing a line leaves a file of lines.
LEMMA EditedIsLabels ==
  ASSUME NEW i \in DOMAIN labels, labels \in Seq(LabelRows)
  PROVE  [labels EXCEPT ![i].verdict = Other(@)] \in Seq(LabelRows)
<1>1. labels \in [1..Len(labels) -> LabelRows] /\ DOMAIN labels = 1..Len(labels) /\ Len(labels) \in Nat
  BY LenProperties
<1>2. Other(labels[i].verdict) \in Verdicts
  BY DEF Other, Verdicts
<1>3. labels[i] \in LabelRows
  BY <1>1
<1>4. [labels[i] EXCEPT !.verdict = Other(labels[i].verdict)] \in LabelRows
  BY <1>2, <1>3 DEF LabelRows
<1>5. PICK row : row = [labels[i] EXCEPT !.verdict = Other(labels[i].verdict)]
  OBVIOUS
<1>6. [labels EXCEPT ![i].verdict = Other(@)] = [labels EXCEPT ![i] = row]
  BY <1>5
<1>7. [labels EXCEPT ![i] = row] \in [1..Len(labels) -> LabelRows]
  BY <1>1, <1>4, <1>5
<1> QED BY <1>1, <1>6, <1>7

LEMMA PeopleKeep ==
  ASSUME IInv,
         (\E l \in Labellings : Annotate(l)) \/ EditLabels \/ EditOverlay \/ EditProbe
           \/ Regenerate \/ EditRubric
  PROVE  IInv'
<1>1. Inner /\ TypeOK
  BY DEF IInv, Inner
<1>2. UNCHANGED <<pc, mem, spent, outcome, settled, judgments, certificate>>
  BY DEF Annotate, EditLabels, EditOverlay, EditProbe, Regenerate, EditRubric, Elsewhere, command,
     files
<1>3. /\ labels \in Seq(LabelRows) /\ overlay \in Overlays /\ probeFile \in BOOLEAN
      /\ rubric \in 1..NumRubrics /\ budget \in [Kinds -> Nat] /\ (runs = None \/ runs \in Outputs)
      /\ Overlays \subseteq Seq(OverlayRows) /\ NumRubrics \in Nat
  BY <1>1, CalibrationAssumption DEF TypeOK
<1>4. budget' \in [Kinds -> Nat] /\ budget'["fault"] = budget["fault"]
  BY <1>3, SpendNoFault DEF Annotate, EditLabels, EditOverlay, EditProbe, Regenerate, EditRubric
<1>5. /\ labels' \in Seq(LabelRows) /\ overlay' \in Overlays /\ probeFile' \in BOOLEAN
      /\ rubric' \in 1..NumRubrics /\ (runs' = None \/ runs' \in Outputs)
  <2>1. ASSUME NEW l \in Labellings, Annotate(l) PROVE labels' \in Seq(LabelRows)
    <3>1. runs \in Outputs
      BY <1>3, <2>1 DEF Annotate
    <3>2. overlay \in Seq(OverlayRows)
      BY <1>3
    <3>3. AreTexts(TriplesOf(runs, MainItems \cup ProbeIds(probeFile)), probeFile)
      BY <3>1, TriplesAreTexts
    <3>4. AreTexts(Shown(runs, probeFile, overlay), probeFile)
      BY <3>2, <3>3, OverlayKeepsTexts DEF Shown
    <3> QED BY <2>1, <3>4, SheetsAreLabels DEF Annotate
  <2>2. ASSUME EditLabels PROVE labels' \in Seq(LabelRows)
    <3>1. CASE \E i \in DOMAIN labels : labels' = Without(labels, i)
      BY <1>3, <3>1, WithoutIsSeq
    <3>2. CASE \E row \in StrayRows : labels' = Append(labels, row)
      <4>1. StrayRows \subseteq LabelRows
        BY CalibrationAssumption
      <4> QED BY <1>3, <3>2, <4>1, AppendProperties
    <3>3. CASE \E i \in DOMAIN labels : labels' = [labels EXCEPT ![i].verdict = Other(@)]
      BY <1>3, <3>3, EditedIsLabels
    <3> QED BY <2>2, <3>1, <3>2, <3>3 DEF EditLabels
  <2>3. CASE \E l \in Labellings : Annotate(l)
    <3>1. UNCHANGED <<runs, overlay, probeFile, rubric>>
      BY <2>3 DEF Annotate
    <3> QED BY <1>3, <2>1, <2>3, <3>1
  <2>4. CASE EditLabels
    <3>1. UNCHANGED <<runs, overlay, probeFile, rubric>>
      BY <2>4 DEF EditLabels
    <3> QED BY <1>3, <2>2, <2>4, <3>1
  <2>5. CASE EditOverlay
    BY <1>3, <2>5 DEF EditOverlay
  <2>6. CASE EditProbe
    BY <1>3, <2>6 DEF EditProbe
  <2>7. CASE Regenerate
    BY <1>3, <2>7 DEF Regenerate
  <2>8. CASE EditRubric
    BY <1>3, <2>8 DEF EditRubric, files
  <2> QED BY <2>3, <2>4, <2>5, <2>6, <2>7, <2>8
<1>6. TypeOK'
  BY <1>1, <1>2, <1>4, <1>5 DEF TypeOK
<1>7. Inner'
  BY <1>1, <1>2, <1>4, InnerFrame
<1> QED BY <1>6, <1>7 DEF IInv, Inner

-----------------------------------------------------------------------------
(* The steps of the command up to its certificate *)

\* A step that computes nothing and writes nothing.
LEMMA QuietStep ==
  ASSUME IInv, ~Computed', ~mem'.offline \/ pc' # "ended",
         pc # "persisting", pc' # "persisting",
         UNCHANGED <<judgments, certificate, settled, budget>>
  PROVE  LiveComputed' /\ OfflineComputed' /\ Refused' /\ Kept' /\ Paired'
<1>1. judgments' = judgments /\ certificate' = certificate /\ settled' = settled /\ budget' = budget
  OBVIOUS
<1>2. LiveComputed' /\ OfflineComputed' /\ Refused'
  BY DEF LiveComputed, OfflineComputed, Refused
<1>3. Kept'
  BY <1>1 DEF IInv, Kept
<1>4. Paired'
  BY <1>1 DEF IInv, Paired, Undisturbed
<1> QED BY <1>2, <1>3, <1>4

LEMMA LoadedMemory ==
  ASSUME NEW offline \in BOOLEAN, LoadFiles(offline), FilesOK
  PROVE  /\ IsMemory(mem') /\ MemoryOK(mem')
         /\ mem'.offline = offline /\ mem'.labels = labels /\ mem'.result = None
         /\ mem'.judgeVersion = rubric
<1>1. PICK m : m = [NoMemory EXCEPT !.offline = offline, !.labels = labels, !.overlay = overlay,
                                    !.probe = probeFile, !.judgeVersion = rubric]
  OBVIOUS
<1>2. mem' = m
  BY <1>1 DEF LoadFiles
<1>3. m = [offline |-> offline, labels |-> labels, overlay |-> overlay, probe |-> probeFile,
           judgeVersion |-> rubric, hash |-> <<>>, texts |-> None, judged |-> None,
           repeats |-> None, result |-> None]
  BY <1>1 DEF NoMemory
<1>4. NumRubrics \in Nat
  BY CalibrationAssumption
<1>5. /\ IsMemory(m) /\ MemoryOK(m)
      /\ m.offline = offline /\ m.labels = labels /\ m.result = None /\ m.judgeVersion = rubric
  BY <1>3, <1>4 DEF IsMemory, MemoryOK, FilesOK
<1> QED BY <1>2, <1>5

LEMMA BeginKeeps == ASSUME IInv, Begin PROVE IInv'
<1>1. FilesOK /\ CommandOK /\ budget \in [Kinds -> Nat] /\ Staged /\ Checked /\ Shaped
  BY TypeParts DEF IInv
<1>2. /\ pc = "idle" /\ LoadFiles(FALSE)
      /\ UNCHANGED <<files, rubric, spent, settled, budget>>
  BY DEF Begin
<1>3. /\ IsMemory(mem') /\ MemoryOK(mem')
      /\ mem'.offline = FALSE /\ mem'.labels = labels /\ mem'.result = None
      /\ mem'.judgeVersion = rubric
  BY <1>1, <1>2, LoadedMemory
<1>4. \/ pc' = "runs" /\ outcome' = outcome /\ GoldError(labels) = None
      \/ pc' = "ended" /\ outcome' # "ok"
  <2>1. GoldError(labels) # None => GoldError(labels) # "ok"
    BY ExceptionsHaveNames DEF Exceptions
  <2> QED BY <2>1 DEF Begin, End
<1>5. FilesOK' /\ CommandOK' /\ budget' \in [Kinds -> Nat]
  <2>1. FilesOK'
    BY <1>1, <1>2 DEF FilesOK, files
  <2>2. CommandOK'
    BY <1>1, <1>2, <1>3, <1>4 DEF CommandOK
  <2>3. budget' = budget
    BY <1>2
  <2> QED BY <1>1, <2>1, <2>2, <2>3
<1>6. TypeOK'
  BY <1>5, TypeParts
<1>7. Shaped'
  BY <1>1, <1>2, <1>3 DEF Shaped, FaultsThen
<1>8. spent' = {} /\ outcome = None
  BY <1>1, <1>2 DEF Staged
<1>9. Staged'
  BY <1>1, <1>3, <1>4, <1>8 DEF Staged, FilesOK
<1>10. Checked'
  BY <1>3, <1>4, <1>8 DEF Checked
<1>11. ~Computed'
  BY <1>3, <1>4 DEF Computed
<1>12. LiveComputed' /\ OfflineComputed' /\ Refused' /\ Kept' /\ Paired'
  BY <1>2, <1>3, <1>4, <1>11, QuietStep DEF files
<1> QED BY <1>6, <1>7, <1>9, <1>10, <1>12 DEF IInv

LEMMA ObtainRunsKeeps == ASSUME IInv, ObtainRuns PROVE IInv'
<1>1. FilesOK /\ CommandOK /\ budget \in [Kinds -> Nat] /\ Staged /\ Checked /\ Shaped
  BY TypeParts DEF IInv
<1>2. /\ pc = "runs"
      /\ UNCHANGED <<labels, overlay, probeFile, judgments, certificate, rubric, settled, budget>>
      /\ spent' \in {{}, {"runs"}}
  <2>1. spent = {}
    BY <1>1 DEF ObtainRuns, Staged
  <2> QED BY <2>1 DEF ObtainRuns
<1>3. mem.result = None /\ mem.offline = FALSE /\ mem.judgeVersion \in 1..NumRubrics
      /\ outcome = None /\ GoldError(mem.labels) = None /\ IsMemory(mem) /\ MemoryOK(mem)
  BY <1>1, <1>2 DEF Staged, Checked, Shaped, IsMemory, CommandOK
<1>4. runs' = None \/ runs' \in Outputs
  BY <1>1 DEF ObtainRuns, FilesOK
<1>5. \/ /\ mem' = [mem EXCEPT !.texts = TriplesOf(runs', MainItems \cup ProbeIds(mem.probe)),
                               !.hash  = labels]
         /\ pc' = "overlaying" /\ outcome' = outcome /\ runs' \in Outputs
      \/ mem' = mem /\ pc' = "ended" /\ outcome' # "ok"
  BY <1>1 DEF ObtainRuns, FilesOK, End
<1>6. /\ IsMemory(mem') /\ MemoryOK(mem') /\ mem'.offline = FALSE /\ mem'.result = None
      /\ mem'.judgeVersion \in 1..NumRubrics /\ mem'.labels = mem.labels
      /\ pc' = "overlaying" => AreTexts(mem'.texts, mem'.probe)
  <2>1. CASE mem' = mem /\ pc' = "ended"
    BY <1>3, <2>1
  <2>2. CASE /\ mem' = [mem EXCEPT !.texts = TriplesOf(runs', MainItems \cup ProbeIds(mem.probe)),
                                   !.hash  = labels]
             /\ runs' \in Outputs
    <3>1. PICK texts : texts = TriplesOf(runs', MainItems \cup ProbeIds(mem.probe))
      OBVIOUS
    <3>2. PICK run \in Outputs : run = runs'
      BY <2>2
    <3>3. AreTexts(texts, mem.probe)
      BY <3>1, <3>2, TriplesAreTexts
    <3>4. mem' = [mem EXCEPT !.texts = texts, !.hash = labels]
      BY <2>2, <3>1
    <3>5. /\ mem'.texts = texts /\ mem'.labels = mem.labels /\ mem'.overlay = mem.overlay
          /\ mem'.judgeVersion = mem.judgeVersion /\ mem'.offline = mem.offline
          /\ mem'.result = mem.result /\ mem'.probe = mem.probe /\ IsMemory(mem')
      BY <1>3, <3>4 DEF IsMemory
    <3>6. \A k \in DOMAIN texts : texts[k] \in Texts
      BY <3>3 DEF AreTexts
    <3>7. MemoryOK(mem')
      BY <1>3, <3>5, <3>6 DEF MemoryOK
    <3> QED BY <1>3, <3>3, <3>5, <3>7
  <2> QED BY <1>5, <2>1, <2>2
<1>7. TypeOK'
  <2>1. FilesOK'
    BY <1>1, <1>2, <1>4 DEF FilesOK
  <2>2. CommandOK'
    BY <1>1, <1>2, <1>5, <1>6 DEF CommandOK
  <2>3. budget' = budget
    BY <1>2
  <2> QED BY <1>1, <2>1, <2>2, <2>3, TypeParts
<1>8. Shaped'
  BY <1>1, <1>2, <1>6 DEF Shaped, FaultsThen
<1>9. Staged'
  BY <1>2, <1>3, <1>5, <1>6 DEF Staged
<1>10. Checked'
  BY <1>2, <1>3, <1>5, <1>6 DEF Checked
<1>11. ~Computed'
  BY <1>5, <1>6 DEF Computed
<1>12. LiveComputed' /\ OfflineComputed' /\ Refused' /\ Kept' /\ Paired'
  BY <1>2, <1>5, <1>6, <1>11, QuietStep
<1> QED BY <1>7, <1>8, <1>9, <1>10, <1>12 DEF IInv

LEMMA OverlayKeeps == ASSUME IInv, Overlay PROVE IInv'
<1>1. FilesOK /\ CommandOK /\ budget \in [Kinds -> Nat] /\ Staged /\ Checked /\ Shaped
  BY TypeParts DEF IInv
<1>2. pc = "overlaying" /\ UNCHANGED <<files, rubric, spent, settled, budget>>
  BY DEF Overlay
<1>3. /\ spent \subseteq {"runs"} /\ mem.result = None /\ mem.offline = FALSE /\ mem.judgeVersion \in 1..NumRubrics
      /\ outcome = None /\ GoldError(mem.labels) = None /\ IsMemory(mem) /\ MemoryOK(mem)
      /\ AreTexts(mem.texts, mem.probe)
  BY <1>1, <1>2 DEF Staged, Checked, Shaped, IsMemory, CommandOK
<1>4. PICK error : error = OverlayError(mem.overlay, ProbeIds(mem.probe), ProbeKeys(mem.texts))
  OBVIOUS
<1>5. error # None => error # "ok"
  BY <1>4, ExceptionsHaveNames DEF Exceptions
<1>6. \/ mem' = mem /\ pc' = "ended" /\ outcome' # "ok"
      \/ /\ error = None /\ mem' = [mem EXCEPT !.texts = ApplyOverlay(mem.texts, mem.overlay)]
         /\ pc' = "judging" /\ outcome' = outcome
  BY <1>4, <1>5 DEF Overlay, End
<1>7. mem.overlay \in Seq(OverlayRows)
  BY <1>3, CalibrationAssumption DEF MemoryOK
<1>8. /\ IsMemory(mem') /\ MemoryOK(mem') /\ mem'.offline = FALSE /\ mem'.result = None
      /\ mem'.judgeVersion \in 1..NumRubrics /\ mem'.labels = mem.labels
      /\ pc' = "judging" => /\ AreTexts(mem'.texts, mem'.probe)
                            /\ AreOverlaid(mem'.overlay, mem'.probe, mem'.texts)
  <2>1. CASE mem' = mem /\ pc' = "ended"
    BY <1>3, <2>1
  <2>2. CASE error = None /\ mem' = [mem EXCEPT !.texts = ApplyOverlay(mem.texts, mem.overlay)]
    <3>1. PICK texts : texts = ApplyOverlay(mem.texts, mem.overlay)
      OBVIOUS
    <3>2. AreTexts(texts, mem.probe) /\ AreOverlaid(mem.overlay, mem.probe, texts)
      BY <1>3, <1>4, <1>7, <2>2, <3>1, OverlayKeepsTexts
    <3>3. mem' = [mem EXCEPT !.texts = texts]
      BY <2>2, <3>1
    <3>4. /\ mem'.texts = texts /\ mem'.labels = mem.labels /\ mem'.overlay = mem.overlay
          /\ mem'.judgeVersion = mem.judgeVersion /\ mem'.offline = mem.offline
          /\ mem'.result = mem.result /\ mem'.probe = mem.probe /\ IsMemory(mem')
      BY <1>3, <3>3 DEF IsMemory
    <3>5. \A k \in DOMAIN texts : texts[k] \in Texts
      BY <3>2 DEF AreTexts
    <3>6. MemoryOK(mem')
      BY <1>3, <3>4, <3>5 DEF MemoryOK
    <3> QED BY <1>3, <3>2, <3>4, <3>6
  <2> QED BY <1>6, <2>1, <2>2
<1>9. TypeOK'
  <2>1. FilesOK'
    BY <1>1, <1>2 DEF FilesOK, files
  <2>2. CommandOK'
    BY <1>1, <1>2, <1>6, <1>8 DEF CommandOK
  <2>3. budget' = budget
    BY <1>2
  <2> QED BY <1>1, <2>1, <2>2, <2>3, TypeParts
<1>10. Shaped'
  BY <1>1, <1>2, <1>8 DEF Shaped, FaultsThen
<1>11. Staged'
  BY <1>2, <1>3, <1>6, <1>8 DEF Staged
<1>12. Checked'
  BY <1>2, <1>3, <1>6, <1>8 DEF Checked
<1>13. ~Computed'
  BY <1>6, <1>8 DEF Computed
<1>14. LiveComputed' /\ OfflineComputed' /\ Refused' /\ Kept' /\ Paired'
  BY <1>2, <1>6, <1>8, <1>13, QuietStep DEF files
<1> QED BY <1>9, <1>10, <1>11, <1>12, <1>14 DEF IInv

\* What the judge answers is about the texts it was shown, and its repeats are of
\* some of their keys.
LEMMA AnswersAreJudged ==
  ASSUME NEW texts, NEW probe, AreTexts(texts, probe), NEW answer \in Judgements,
         NEW repeat \in RepeatAnswers
  PROVE  /\ AreJudged([k \in DOMAIN texts |-> [verdict |-> answer[k], text |-> texts[k]]], texts)
         /\ [k \in FixedKeys(DOMAIN texts) |-> repeat] \in UNION {[keys -> RepeatAnswers] : keys \in SUBSET Keys}
<1> DEFINE judged == [k \in DOMAIN texts |-> [verdict |-> answer[k], text |-> texts[k]]]
<1>1. DOMAIN texts \in SUBSET Keys /\ \A k \in DOMAIN texts : texts[k] \in Texts
  BY DEF AreTexts
<1>2. answer \in [Keys -> Verdicts \cup {None}]
  BY CalibrationAssumption
<1>3. \A k \in DOMAIN texts : answer[k] \in Verdicts \cup {None}
  BY <1>1, <1>2
<1>4. judged \in [DOMAIN texts -> [verdict : Verdicts \cup {None}, text : Texts]]
  BY <1>1, <1>3
<1>5. \A k \in DOMAIN texts : judged[k].text = texts[k]
  OBVIOUS
<1>6. FixedKeys(DOMAIN texts) \in SUBSET Keys
  <2>1. PICK sorted \in Seq(DOMAIN texts) : sorted = InOrder(DOMAIN texts)
    BY <1>1, InOrderListsThem
  <2>2. \A i \in DOMAIN sorted : sorted[i] \in DOMAIN texts
    BY ElementOfSeq, LenProperties
  <2>3. FixedKeys(DOMAIN texts) \subseteq DOMAIN texts
    BY <2>1, <2>2 DEF FixedKeys
  <2> QED BY <1>1, <2>3
<1>7. [k \in FixedKeys(DOMAIN texts) |-> repeat] \in [FixedKeys(DOMAIN texts) -> RepeatAnswers]
  OBVIOUS
<1> QED BY <1>4, <1>5, <1>6, <1>7 DEF AreJudged

LEMMA JudgeKeeps ==
  ASSUME IInv, NEW answer \in Judgements, NEW repeat \in RepeatAnswers, JudgeAll(answer, repeat)
  PROVE  IInv'
<1>1. FilesOK /\ CommandOK /\ budget \in [Kinds -> Nat] /\ Staged /\ Checked /\ Shaped /\ Kept /\ Paired
  BY TypeParts DEF IInv
<1>2. pc = "judging" /\ spent' = spent \cup {"judge"} /\ UNCHANGED <<files, rubric, settled, budget>>
  BY DEF JudgeAll
<1>3. /\ mem.result = None /\ mem.offline = FALSE /\ mem.judgeVersion \in 1..NumRubrics
      /\ outcome = None /\ GoldError(mem.labels) = None /\ IsMemory(mem) /\ MemoryOK(mem)
      /\ AreTexts(mem.texts, mem.probe) /\ AreOverlaid(mem.overlay, mem.probe, mem.texts)
  BY <1>1, <1>2 DEF Staged, Checked, Shaped, IsMemory, CommandOK
<1>4. PICK judged : judged = [k \in DOMAIN mem.texts |-> [verdict |-> answer[k], text |-> mem.texts[k]]]
  OBVIOUS
<1>5. PICK repeats : repeats = [k \in FixedKeys(DOMAIN mem.texts) |-> repeat]
  OBVIOUS
<1>6. /\ AreJudged(judged, mem.texts)
      /\ repeats \in UNION {[keys -> RepeatAnswers] : keys \in SUBSET Keys}
  BY <1>3, <1>4, <1>5, AnswersAreJudged
<1>7. PICK e1 : e1 = PairError(judged, Gold(mem.labels))
  OBVIOUS
<1>8. PICK e2 : e2 = StatisticsError(judged, mem.labels, ProbeIds(mem.probe))
  OBVIOUS
<1>9. (e1 # None => e1 # "ok") /\ (e2 # None => e2 # "ok")
  BY <1>7, <1>8, ExceptionsHaveNames DEF Exceptions
<1>10. PICK result : result = Result(judged, mem.labels, mem.overlay, ProbeIds(mem.probe), repeats,
                                     mem.judgeVersion, mem.hash)
  OBVIOUS
<1>11. \/ mem' = [mem EXCEPT !.judged = judged] /\ pc' = "ended" /\ outcome' # "ok"
       \/ /\ e1 = None /\ e2 = None
          /\ mem' = [mem EXCEPT !.judged = judged, !.repeats = repeats, !.result = result]
          /\ pc' = "certifying" /\ outcome' = outcome
  BY <1>4, <1>5, <1>7, <1>8, <1>9, <1>10 DEF JudgeAll, End
<1>12. /\ IsMemory(mem') /\ mem'.offline = mem.offline /\ mem'.labels = mem.labels
       /\ mem'.overlay = mem.overlay /\ mem'.probe = mem.probe /\ mem'.hash = mem.hash
       /\ mem'.judgeVersion = mem.judgeVersion /\ mem'.texts = mem.texts /\ mem'.judged = judged
       /\ pc' = "ended" => mem'.result = mem.result
       /\ pc' = "certifying" => mem'.result = result /\ mem'.repeats = repeats
  BY <1>3, <1>11 DEF IsMemory
<1>13. TypeOK'
  <2>1. FilesOK'
    BY <1>1, <1>2 DEF FilesOK, files
  <2>2. MemoryOK(mem')
    BY <1>3, <1>12 DEF MemoryOK
  <2>3. CommandOK'
    BY <1>1, <1>2, <1>11, <2>2 DEF CommandOK
  <2>4. budget' = budget
    BY <1>2
  <2> QED BY <1>1, <2>1, <2>3, <2>4, TypeParts
<1>14. Shaped'
  BY <1>1, <1>2, <1>12 DEF Shaped, FaultsThen
<1>15. Staged'
  BY <1>2, <1>3, <1>11, <1>12 DEF Staged
<1>16. Checked'
  BY <1>2, <1>3, <1>11, <1>12 DEF Checked
<1>17. CASE pc' = "ended"
  <2>1. ~Computed'
    BY <1>3, <1>11, <1>12, <1>17 DEF Computed
  <2>2. LiveComputed' /\ OfflineComputed' /\ Refused' /\ Kept' /\ Paired'
    BY <1>2, <1>3, <1>12, <1>17, <2>1, QuietStep DEF files
  <2> QED BY <1>13, <1>14, <1>15, <1>16, <2>2 DEF IInv
<1>18. CASE pc' = "certifying"
  <2>1. e1 = None /\ e2 = None
    BY <1>11, <1>18
  <2>2. Certified(result, judged, mem.labels, mem.overlay, ProbeIds(mem.probe), repeats,
                  mem.judgeVersion, mem.hash)
    BY <1>3, <1>7, <1>8, <1>10, <2>1 DEF Certified, MemoryOK
  <2>3. LiveComputed'
    BY <1>3, <1>6, <1>12, <1>18, <2>2 DEF LiveComputed
  <2>4. OfflineComputed' /\ Refused'
    BY <1>3, <1>12 DEF OfflineComputed, Refused
  <2>5. judgments' = judgments /\ certificate' = certificate /\ settled' = settled /\ budget' = budget
    BY <1>2 DEF files
  <2>6. Kept'
    BY <1>1, <2>5 DEF Kept
  <2>7. Paired'
    BY <1>1, <1>2, <1>18, <2>5 DEF Paired, Undisturbed
  <2> QED BY <1>13, <1>14, <1>15, <1>16, <2>3, <2>4, <2>6, <2>7 DEF IInv
<1> QED BY <1>11, <1>17, <1>18

LEMMA JudgeRaisesKeeps == ASSUME IInv, JudgeRaises PROVE IInv'
<1>1. FilesOK /\ CommandOK /\ budget \in [Kinds -> Nat] /\ Staged /\ Checked /\ Shaped
  BY TypeParts DEF IInv
<1>2. /\ pc = "judging" /\ spent' = spent \cup {"judge"} /\ pc' = "ended" /\ outcome' # "ok" /\ mem' = mem
      /\ UNCHANGED <<files, rubric, settled, budget>>
  BY DEF JudgeRaises, End
<1>3. mem.result = None /\ mem.offline = FALSE /\ mem.judgeVersion \in 1..NumRubrics
  BY <1>1, <1>2 DEF Staged, Shaped, IsMemory
<1>4. TypeOK'
  <2>1. FilesOK'
    BY <1>1, <1>2 DEF FilesOK, files
  <2>2. CommandOK'
    BY <1>1, <1>2 DEF CommandOK
  <2>3. budget' = budget
    BY <1>2
  <2> QED BY <1>1, <2>1, <2>2, <2>3, TypeParts
<1>5. Shaped'
  BY <1>1, <1>2 DEF Shaped, FaultsThen
<1>6. Staged' /\ Checked'
  BY <1>1, <1>2, <1>3 DEF Staged, Checked
<1>7. ~Computed'
  BY <1>2, <1>3 DEF Computed
<1>8. LiveComputed' /\ OfflineComputed' /\ Refused' /\ Kept' /\ Paired'
  BY <1>2, <1>3, <1>7, QuietStep DEF files
<1> QED BY <1>4, <1>5, <1>6, <1>8 DEF IInv

LEMMA ExitKeeps == ASSUME IInv, Exit PROVE IInv'
<1>1. FilesOK /\ CommandOK /\ budget \in [Kinds -> Nat] /\ Staged /\ Checked /\ Shaped
  BY TypeParts DEF IInv
<1>2. /\ pc = "ended" /\ pc' = "idle" /\ mem' = NoMemory /\ spent' = {} /\ outcome' = None
      /\ UNCHANGED <<files, rubric, settled, budget>>
  BY DEF Exit
<1>3. TypeOK'
  <2>1. FilesOK'
    BY <1>1, <1>2 DEF FilesOK, files
  <2>2. CommandOK'
    BY <1>2, EmptyMemoryOK DEF CommandOK
  <2>3. budget' = budget
    BY <1>2
  <2> QED BY <1>1, <2>1, <2>2, <2>3, TypeParts
<1>4. Shaped'
  BY <1>1, <1>2, EmptyMemory DEF Shaped, FaultsThen
<1>5. Staged' /\ Checked'
  BY <1>2 DEF Staged, Checked
<1>6. ~Computed'
  BY <1>2, EmptyMemory DEF Computed
<1>7. LiveComputed' /\ OfflineComputed' /\ Refused' /\ Kept' /\ Paired'
  BY <1>2, <1>6, QuietStep DEF files
<1> QED BY <1>3, <1>4, <1>5, <1>7 DEF IInv

LEMMA RecomputeKeeps == ASSUME IInv, Recompute PROVE IInv'
<1>1. /\ FilesOK /\ CommandOK /\ budget \in [Kinds -> Nat] /\ Staged /\ Checked /\ Shaped
      /\ Kept /\ Paired
  BY TypeParts DEF IInv
<1>2. pc = "idle" /\ UNCHANGED <<files, rubric, spent, settled, budget>>
  BY DEF Recompute
<1>3. PICK error : error = IF judgments = None THEN "FileNotFoundError" ELSE OfflineError(judgments)
  OBVIOUS
<1>4. PICK result : result = OfflineResult(judgments)
  OBVIOUS
<1>5. PICK loaded : loaded = [NoMemory EXCEPT !.offline = TRUE, !.labels = labels, !.overlay = overlay,
                                              !.judgeVersion = rubric, !.hash = labels]
  OBVIOUS
<1>6. PICK computed : computed = [loaded EXCEPT !.judged = judgments.judged, !.result = result]
  OBVIOUS
<1>7. \/ error # None /\ mem' = loaded /\ pc' = "ended" /\ outcome' = error
      \/ error = None /\ mem' = computed /\ pc' = "certifying" /\ outcome' = outcome
  <2>1. \/ error # None /\ mem' = loaded /\ End(error)
        \/ error = None /\ mem' = computed /\ pc' = "certifying" /\ outcome' = outcome
    BY <1>3, <1>4, <1>5, <1>6 DEF Recompute
  <2> QED BY <2>1 DEF End
<1>8. loaded = [offline |-> TRUE, labels |-> labels, overlay |-> overlay, probe |-> FALSE,
                judgeVersion |-> rubric, hash |-> labels, texts |-> None, judged |-> None,
                repeats |-> None, result |-> None]
  BY <1>5 DEF NoMemory
<1>9. computed = [offline |-> TRUE, labels |-> labels, overlay |-> overlay, probe |-> FALSE,
                  judgeVersion |-> rubric, hash |-> labels, texts |-> None,
                  judged |-> judgments.judged, repeats |-> None, result |-> result]
  BY <1>6, <1>8
<1>10. \A m \in {loaded, computed} :
          /\ IsMemory(m) /\ m.offline = TRUE /\ m.labels = labels /\ m.overlay = overlay
          /\ m.judgeVersion = rubric /\ m.texts = None
  <2>1. /\ IsMemory(loaded) /\ loaded.offline = TRUE /\ loaded.labels = labels
        /\ loaded.overlay = overlay /\ loaded.judgeVersion = rubric /\ loaded.texts = None
    BY <1>8 DEF IsMemory
  <2>2. /\ IsMemory(computed) /\ computed.offline = TRUE /\ computed.labels = labels
        /\ computed.overlay = overlay /\ computed.judgeVersion = rubric /\ computed.texts = None
    BY <1>9 DEF IsMemory
  <2> QED BY <2>1, <2>2
<1>11. loaded.result = None /\ computed.result = result /\ computed.judged = judgments.judged
  BY <1>8, <1>9
<1>12. /\ mem' \in {loaded, computed} /\ IsMemory(mem') /\ mem'.offline = TRUE
       /\ mem'.labels = labels /\ mem'.overlay = overlay /\ mem'.judgeVersion = rubric
       /\ mem'.texts = None
  <2>1. mem' \in {loaded, computed}
    BY <1>7
  <2> HIDE DEF IsMemory
  <2> QED BY <1>10, <2>1
<1>13. error # None => error # "ok"
  BY <1>3, ExceptionsHaveNames DEF Exceptions
<1>14. rubric \in 1..NumRubrics /\ NumRubrics \in Nat
  BY <1>1, CalibrationAssumption DEF FilesOK
<1>15. TypeOK'
  <2>1. FilesOK'
    BY <1>1, <1>2 DEF FilesOK, files
  <2>2. MemoryOK(mem')
    BY <1>1, <1>12, <1>14 DEF MemoryOK, FilesOK
  <2>3. CommandOK'
    BY <1>1, <1>2, <1>7, <2>2 DEF CommandOK
  <2>4. budget' = budget
    BY <1>2
  <2> QED BY <1>1, <2>1, <2>3, <2>4, TypeParts
<1>16. Shaped'
  BY <1>1, <1>2, <1>12 DEF Shaped, FaultsThen
<1>17. spent' = {} /\ outcome = None
  BY <1>1, <1>2 DEF Staged
<1>18. Staged'
  BY <1>7, <1>12, <1>14, <1>17 DEF Staged
<1>19. /\ judgments' = judgments /\ certificate' = certificate /\ settled' = settled /\ budget' = budget
       /\ labels' = labels /\ overlay' = overlay /\ rubric' = rubric
  BY <1>2 DEF files
<1>20. None \notin Exceptions /\ "FileNotFoundError" \in Exceptions
  BY ExceptionsHaveNames DEF Exceptions
<1>21. error = None => judgments # None /\ ~OfflineFails(judgments, labels, overlay, rubric)
  BY <1>3, <1>20, OfflineErrorIsFailure
<1>22. error # None => judgments = None \/ OfflineFails(judgments, labels, overlay, rubric)
  BY <1>3, OfflineErrorIsFailure
<1>23. Checked'
  BY <1>7, <1>12, <1>17, <1>21 DEF Checked, OfflineFails
<1>24. Refused'
  BY <1>7, <1>12, <1>19, <1>22 DEF Refused
<1>25. LiveComputed'
  BY <1>12 DEF LiveComputed
<1>26. OfflineComputed'
  <2>1. CASE error # None
    <3>1. ~Computed'
      BY <1>7, <1>11, <1>13, <2>1 DEF Computed
    <3> QED BY <3>1 DEF OfflineComputed
  <2>2. CASE error = None
    <3>1. mem'.judged = judgments.judged /\ mem'.result = result
      BY <1>7, <1>11, <2>2
    <3>2. ~OfflineFails(judgments, labels, overlay, rubric) /\ judgments # None
      BY <1>21, <2>2
    <3>3. Certified(result, judgments.judged, labels, overlay, ProbeIdsOf(judgments),
                    judgments.repeats, judgments.judgeVersion, labels)
      BY <1>1, <1>4, <3>2 DEF Certified, OfflineFails, OfflineResult, ProbeIdsOf, FilesOK
    <3>4. judgments.judgeVersion = rubric
      BY <3>2 DEF OfflineFails
    <3> QED BY <1>12, <1>19, <3>1, <3>2, <3>3, <3>4 DEF OfflineComputed
  <2> QED BY <2>1, <2>2
<1>27. Kept'
  BY <1>1, <1>19 DEF Kept
<1>28. Paired'
  BY <1>1, <1>2, <1>7, <1>19 DEF Paired, Undisturbed
<1> QED BY <1>15, <1>16, <1>18, <1>23, <1>24, <1>25, <1>26, <1>27, <1>28 DEF IInv

-----------------------------------------------------------------------------
(* The writes, and what may befall them *)

\* The verdicts of a certificate are those of the judgments it was made of.
LEMMA CertifiedVerdicts ==
  ASSUME NEW c, NEW judged, NEW rows, NEW plants, NEW probeIds, NEW repeats, NEW version, NEW hash,
         Certified(c, judged, rows, plants, probeIds, repeats, version, hash)
  PROVE  /\ c.judgeVersion = version /\ c.labelFileHash = hash
         /\ \A k \in DOMAIN c.overall : c.overall[k][2] = judged[k].verdict
<1>1. \A k \in DOMAIN c.overall : c.overall[k] = <<LastWord(rows, k).verdict, judged[k].verdict>>
  BY CertifiedSample
<1>2. c.judgeVersion = version /\ c.labelFileHash = hash
  BY ResultFields DEF Certified
<1> QED BY <1>1, <1>2

LEMMA WriteCertificateKeeps == ASSUME IInv, WriteCertificate PROVE IInv'
<1>1. /\ FilesOK /\ CommandOK /\ budget \in [Kinds -> Nat] /\ Staged /\ Checked /\ Shaped
      /\ LiveComputed /\ OfflineComputed /\ Kept /\ Paired
  BY TypeParts DEF IInv
<1>2. /\ pc = "certifying" /\ certificate' = mem.result
      /\ UNCHANGED <<runs, labels, overlay, probeFile, judgments, rubric, mem, spent, settled, budget>>
  BY DEF WriteCertificate
<1>3. mem.offline \in BOOLEAN
  BY <1>1 DEF Shaped, IsMemory
<1>4. \/ mem.offline /\ pc' = "ended" /\ outcome' = "ok"
      \/ ~mem.offline /\ pc' = "persisting" /\ outcome' = outcome
  BY <1>3 DEF WriteCertificate, End
<1>5. Computed
  BY <1>2 DEF Computed
<1>6. TypeOK'
  <2>1. FilesOK'
    BY <1>1, <1>2 DEF FilesOK
  <2>2. CommandOK'
    BY <1>1, <1>2, <1>4 DEF CommandOK
  <2>3. budget' = budget
    BY <1>2
  <2> QED BY <1>1, <2>1, <2>2, <2>3, TypeParts
<1>7. Shaped' /\ Staged' /\ Checked'
  BY <1>1, <1>2, <1>4 DEF Shaped, FaultsThen, Staged, Checked
<1>8. mem' = mem /\ judgments' = judgments /\ settled' = settled /\ budget' = budget
  BY <1>2
<1>9. LiveComputed' /\ OfflineComputed'
  BY <1>1, <1>5, <1>8 DEF LiveComputed, OfflineComputed
<1>10. Refused'
  BY <1>4, <1>8 DEF Refused
<1>11. Kept'
  BY <1>1, <1>8 DEF Kept
<1>12. Paired'
  <2>1. CASE ~mem.offline
    BY <1>2, <1>4, <1>8, <2>1 DEF Paired
  <2>2. CASE mem.offline
    <3>1. Certified(mem.result, judgments.judged, mem.labels, mem.overlay, ProbeIdsOf(judgments),
                    judgments.repeats, judgments.judgeVersion, mem.labels)
      BY <1>1, <1>5, <2>2 DEF OfflineComputed
    <3>2. /\ mem.result.judgeVersion = judgments.judgeVersion
          /\ \A k \in DOMAIN mem.result.overall :
                mem.result.overall[k][2] = judgments.judged[k].verdict
      BY <3>1, CertifiedVerdicts
    <3> QED BY <1>2, <1>4, <1>8, <2>2, <3>2 DEF Paired
  <2> QED BY <1>3, <2>1, <2>2
<1> QED BY <1>6, <1>7, <1>9, <1>10, <1>11, <1>12 DEF IInv

LEMMA WriteJudgmentsKeeps == ASSUME IInv, WriteJudgments PROVE IInv'
<1>1. /\ FilesOK /\ CommandOK /\ budget \in [Kinds -> Nat] /\ Staged /\ Checked /\ Shaped
      /\ LiveComputed /\ OfflineComputed /\ Kept /\ Paired
  BY TypeParts DEF IInv
<1>2. /\ pc = "persisting" /\ pc' = "ended" /\ outcome' = "ok" /\ judgments' = JudgmentRecords
      /\ UNCHANGED <<runs, labels, overlay, probeFile, certificate, rubric, mem, spent, budget>>
  BY DEF WriteJudgments, End
<1>3. settled' = [labels |-> mem.labels, overlay |-> mem.overlay, probe |-> mem.probe,
                  judge |-> mem.judgeVersion, texts |-> mem.texts, certificate |-> certificate,
                  faultsLeft |-> budget["fault"]]
  BY DEF WriteJudgments, Settlement
<1>4. Computed /\ mem.offline = FALSE /\ mem.judgeVersion \in 1..NumRubrics /\ certificate = mem.result
  BY <1>1, <1>2 DEF Computed, Staged, Shaped, IsMemory, Paired
<1>5. /\ AreTexts(mem.texts, mem.probe)
      /\ AreOverlaid(mem.overlay, mem.probe, mem.texts)
      /\ AreJudged(mem.judged, mem.texts)
      /\ mem.repeats \in UNION {[keys -> RepeatAnswers] : keys \in SUBSET Keys}
      /\ Certified(mem.result, mem.judged, mem.labels, mem.overlay, ProbeIds(mem.probe),
                   mem.repeats, mem.judgeVersion, mem.hash)
  BY <1>1, <1>4 DEF LiveComputed
<1>6. TypeOK'
  <2>1. FilesOK'
    BY <1>1, <1>2 DEF FilesOK
  <2>2. CommandOK'
    BY <1>1, <1>2 DEF CommandOK
  <2>3. budget' = budget
    BY <1>2
  <2> QED BY <1>1, <2>1, <2>2, <2>3, TypeParts
<1>7. Shaped' /\ Staged' /\ Checked'
  <2>1. settled'.faultsLeft = budget["fault"] /\ budget' = budget /\ mem' = mem
    BY <1>2, <1>3
  <2>2. MaxFaults \in Nat
    BY CalibrationAssumption
  <2>3. Shaped'
    BY <1>1, <2>1, <2>2 DEF Shaped, FaultsThen
  <2> QED BY <1>1, <1>2, <2>3 DEF Staged, Checked
<1>8. mem' = mem /\ certificate' = certificate /\ budget' = budget
  BY <1>2
<1>9. LiveComputed'
  BY <1>5, <1>8 DEF LiveComputed
<1>10. OfflineComputed' /\ Refused'
  BY <1>4, <1>8 DEF OfflineComputed, Refused
<1>11. /\ judgments'.judgeVersion = mem.judgeVersion /\ judgments'.judged = mem.judged
       /\ judgments'.probe = ProbeKeys(mem.judged) /\ judgments'.repeats = mem.repeats
  BY <1>2 DEF JudgmentRecords
<1>12. ProbeKeys(mem.judged) = ProbeKeys(mem.texts) /\ ProbeKeys(mem.judged) \in SUBSET Keys
  BY <1>5 DEF AreJudged, AreTexts, ProbeKeys
<1>13. judgments' \in JudgmentFiles
  <2>1. mem.judged \in [DOMAIN mem.texts -> [verdict : Verdicts \cup {None}, text : Texts]]
        /\ DOMAIN mem.texts \in SUBSET Keys
    BY <1>5 DEF AreJudged, AreTexts
  <2>2. mem.judged \in UNION {[keys -> [verdict : Verdicts \cup {None}, text : Texts]] : keys \in SUBSET Keys}
    BY <2>1
  <2> QED BY <1>2, <1>4, <1>5, <1>12, <2>2 DEF JudgmentRecords, JudgmentFiles
<1>14. /\ settled'.labels = mem.labels /\ settled'.overlay = mem.overlay /\ settled'.probe = mem.probe
       /\ settled'.judge = mem.judgeVersion /\ settled'.texts = mem.texts
       /\ settled'.certificate = mem.result
  BY <1>3, <1>4
<1>15. mem.result.labelFileHash = mem.hash /\ mem.result.judgeVersion = mem.judgeVersion
       /\ \A k \in DOMAIN mem.result.overall : mem.result.overall[k][2] = mem.judged[k].verdict
  BY <1>5, CertifiedVerdicts
<1>16. Kept'
  BY <1>5, <1>11, <1>12, <1>13, <1>14, <1>15 DEF Kept
<1>17. Paired'
  BY <1>2, <1>4, <1>8, <1>11, <1>15 DEF Paired
<1> QED BY <1>6, <1>7, <1>9, <1>10, <1>16, <1>17 DEF IInv

\* A command a fault ends leaves the judgments, and what it holds, as they were.
LEMMA FaultKeeps ==
  ASSUME IInv, pc \notin {"idle", "ended"}, Spend("fault"), pc' = "ended",
         outcome' \in {"killed", "OSError"},
         UNCHANGED <<runs, labels, overlay, probeFile, judgments, rubric, mem, spent, settled>>
  PROVE  IInv'
<1>1. /\ FilesOK /\ CommandOK /\ budget \in [Kinds -> Nat] /\ Staged /\ Checked /\ Shaped
      /\ LiveComputed /\ OfflineComputed /\ Kept
  BY TypeParts DEF IInv
<1>2. "fault" \in Kinds
  BY DEF Kinds
<1>3. budget' \in [Kinds -> Nat] /\ budget'["fault"] < budget["fault"]
  BY <1>1, <1>2, SpendOne
<1>4. mem' = mem /\ judgments' = judgments /\ settled' = settled /\ FaultsThen' = FaultsThen
  BY DEF FaultsThen
<1>5. /\ MaxFaults \in Nat /\ budget["fault"] \in Nat /\ budget'["fault"] \in Nat
      /\ FaultsThen \in budget["fault"]..MaxFaults
  BY <1>1, <1>2, <1>3, CalibrationAssumption DEF Shaped
<1>6. TypeOK'
  <2>1. FilesOK'
    BY <1>1 DEF FilesOK
  <2>2. CommandOK'
    BY <1>1 DEF CommandOK
  <2> QED BY <1>3, <2>1, <2>2, TypeParts
<1>7. Shaped'
  BY <1>1, <1>3, <1>4, <1>5 DEF Shaped
<1>8. Staged' /\ Checked'
  BY <1>1 DEF Staged, Checked
<1>9. Computed' => Computed
  BY DEF Computed
<1>10. LiveComputed' /\ OfflineComputed' /\ Refused'
  BY <1>1, <1>4, <1>9 DEF LiveComputed, OfflineComputed, Refused
<1>11. Kept'
  BY <1>1, <1>4 DEF Kept
<1>12. ~Undisturbed'
  BY <1>3, <1>4, <1>5 DEF Undisturbed, FaultsThen
<1>13. Paired'
  BY <1>12 DEF Paired
<1> QED BY <1>6, <1>7, <1>8, <1>10, <1>11, <1>13 DEF IInv

LEMMA FaultsKeep == ASSUME IInv, Kill \/ CertificateFails \/ JudgmentsFail PROVE IInv'
<1>1. CASE Kill
  BY <1>1, FaultKeeps DEF Kill, End
<1>2. CASE CertificateFails
  BY <1>2, FaultKeeps DEF CertificateFails, End
<1>3. CASE JudgmentsFail
  BY <1>3, FaultKeeps DEF JudgmentsFail, End, files
<1> QED BY <1>1, <1>2, <1>3

-----------------------------------------------------------------------------
(* The theorems *)

LEMMA NextKeeps == IInv /\ [Next]_vars => IInv'
<1> SUFFICES ASSUME IInv, [Next]_vars PROVE IInv'
  OBVIOUS
<1>1. CASE Begin
  BY <1>1, BeginKeeps
<1>2. CASE ObtainRuns
  BY <1>2, ObtainRunsKeeps
<1>3. CASE Overlay
  BY <1>3, OverlayKeeps
<1>4. CASE \E answer \in Judgements, repeat \in RepeatAnswers : JudgeAll(answer, repeat)
  BY <1>4, JudgeKeeps
<1>5. CASE JudgeRaises
  BY <1>5, JudgeRaisesKeeps
<1>6. CASE Recompute
  BY <1>6, RecomputeKeeps
<1>7. CASE WriteCertificate
  BY <1>7, WriteCertificateKeeps
<1>8. CASE WriteJudgments
  BY <1>8, WriteJudgmentsKeeps
<1>9. CASE Exit
  BY <1>9, ExitKeeps
<1>10. CASE (\E l \in Labellings : Annotate(l)) \/ EditLabels \/ EditOverlay \/ EditProbe
              \/ Regenerate \/ EditRubric
  BY <1>10, PeopleKeep
<1>11. CASE Kill \/ CertificateFails \/ JudgmentsFail
  BY <1>11, FaultsKeep
<1>12. CASE UNCHANGED vars
  <2>1. /\ UNCHANGED <<pc, mem, spent, outcome, settled, judgments, certificate, budget>>
        /\ UNCHANGED <<runs, labels, overlay, probeFile, rubric>>
    BY <1>12 DEF vars, files, command
  <2>2. Inner'
    BY <2>1, InnerFrame DEF IInv, Inner
  <2>3. TypeOK'
    BY <2>1 DEF IInv, TypeOK
  <2> QED BY <2>2, <2>3 DEF IInv, Inner
<1> QED
  BY <1>1, <1>2, <1>3, <1>4, <1>5, <1>6, <1>7, <1>8, <1>9, <1>10, <1>11, <1>12
  DEF Next, Calibrate, Environment

LEMMA Invariance == Spec => []IInv
<1>1. Init => IInv
  BY InitEstablishes
<1>2. IInv /\ [Next]_vars => IInv'
  BY NextKeeps
<1> QED BY <1>1, <1>2, PTL DEF Spec

\* Types, of the files and of what the command holds.
THEOREM CalibrationTypeCorrect == Spec => []TypeOK
<1>1. IInv => TypeOK
  BY DEF IInv
<1> QED BY <1>1, Invariance, PTL

\* resolve_gold_labels accepts the files in which the two annotators signed every
\* key once, about one text, and adjudicated what they differ on, and no other.
THEOREM ChecksAcceptTheWellFormed == Spec => []AcceptedIffWellFormed
<1>1. IInv => AcceptedIffWellFormed
  <2> SUFFICES ASSUME IInv PROVE AcceptedIffWellFormed
    OBVIOUS
  <2>1. labels \in Seq(LabelRows)
    BY DEF IInv, TypeOK
  <2> QED BY <2>1, GoldErrorIffIllFormed DEF AcceptedIffWellFormed
<1> QED BY <1>1, Invariance, PTL

\* Distinct keys in an overlay are as many as its rows.
LEMMA OverlayCounts ==
  ASSUME NEW S, NEW rows \in Seq(S),
         \A i, j \in DOMAIN rows : rows[i].key = rows[j].key => i = j
  PROVE  Cardinality(OverlayKeys(rows)) = Len(rows)
<1> DEFINE f == [i \in 1..Len(rows) |-> rows[i].key]
<1>1. DOMAIN rows = 1..Len(rows) /\ Len(rows) \in Nat
  BY LenProperties
<1>2. f \in Surjection(1..Len(rows), OverlayKeys(rows)) /\ f \in Injection(1..Len(rows), OverlayKeys(rows))
  BY <1>1 DEF Surjection, Injection, IsInjective, OverlayKeys
<1>3. IsFiniteSet(1..Len(rows)) /\ Cardinality(1..Len(rows)) = Len(rows)
  BY <1>1, FS_Interval
<1> HIDE DEF f
<1>4. Cardinality(OverlayKeys(rows)) = Cardinality(1..Len(rows))
  BY <1>2, <1>3, FS_Surjection
<1> QED BY <1>3, <1>4

\* Labels that are not in order cost no client, no run and no judge call, and an
\* overlay that is not, no judge call of the calibration's own.
THEOREM BadFilesCostNothing == Spec => []NoWorkOnBadFiles
<1>1. IInv => NoWorkOnBadFiles
  <2> SUFFICES ASSUME IInv PROVE NoWorkOnBadFiles
    OBVIOUS
  <2>1. mem.labels \in Seq(LabelRows) /\ mem.overlay \in Seq(OverlayRows)
    BY CalibrationAssumption DEF IInv, TypeOK
  <2>2. pc \notin {"idle", "ended"} \/ spent # {} => WellFormed(mem.labels)
    BY <2>1, GoldErrorIffIllFormed DEF IInv, Checked
  <2>3. ASSUME "judge" \in spent
        PROVE  /\ OverlayKeys(mem.overlay) \subseteq ProbeKeys(mem.texts)
               /\ Cardinality(OverlayKeys(mem.overlay)) = Len(mem.overlay)
    <3>1. OverlayError(mem.overlay, ProbeIds(mem.probe), ProbeKeys(mem.texts)) = None
      BY <2>3 DEF IInv, Checked, AreOverlaid
    <3>2. /\ \A i, j \in DOMAIN mem.overlay : mem.overlay[i].key = mem.overlay[j].key => i = j
          /\ \A i \in DOMAIN mem.overlay : mem.overlay[i].key \in ProbeKeys(mem.texts)
      BY <3>1, KeyAssumption DEF OverlayError
    <3>3. Cardinality(OverlayKeys(mem.overlay)) = Len(mem.overlay)
      BY <2>1, <3>2, OverlayCounts
    <3> QED BY <3>2, <3>3 DEF OverlayKeys
  <2> QED BY <2>2, <2>3 DEF NoWorkOnBadFiles
<1> QED BY <1>1, Invariance, PTL

\* A certificate compares verdicts about one text, and a planted text was judged
\* where the overlay plants it.
THEOREM VerdictsMeet == Spec => []VerdictsAreAboutOneText
<1>1. IInv => VerdictsAreAboutOneText
  <2> SUFFICES ASSUME IInv, mem.result # None, NEW k \in DOMAIN mem.result.overall
               PROVE  /\ mem.result.overall[k] = <<LastWord(mem.labels, k).verdict, mem.judged[k].verdict>>
                      /\ \A i \in DOMAIN mem.labels :
                             mem.labels[i].key = k => mem.labels[i].text = mem.judged[k].text
                      /\ k \in OverlayKeys(mem.overlay) /\ (mem.offline => mem.overlay = settled.overlay) =>
                             \E i \in DOMAIN mem.overlay :
                                 mem.overlay[i] = [key |-> k, text |-> mem.judged[k].text]
    BY DEF VerdictsAreAboutOneText
  <2>1. Computed /\ LiveComputed /\ OfflineComputed /\ Kept /\ mem.offline \in BOOLEAN
    BY DEF IInv, Computed, Shaped, IsMemory
  <2>2. ASSUME NEW plants, NEW probeIds, NEW repeats, NEW version, NEW hash,
               Certified(mem.result, mem.judged, mem.labels, plants, probeIds, repeats, version, hash)
        PROVE  /\ mem.result.overall[k] = <<LastWord(mem.labels, k).verdict, mem.judged[k].verdict>>
               /\ \A i \in DOMAIN mem.labels :
                      mem.labels[i].key = k => mem.labels[i].text = mem.judged[k].text
               /\ k \in DOMAIN mem.judged
    BY <2>2, CertifiedSample
  <2>3. ASSUME NEW rows, NEW probe, NEW texts, AreOverlaid(rows, probe, texts),
               AreJudged(mem.judged, texts), k \in OverlayKeys(rows), k \in DOMAIN mem.judged
        PROVE  \E i \in DOMAIN rows : rows[i] = [key |-> k, text |-> mem.judged[k].text]
    <3>1. mem.judged[k].text = texts[k]
      BY <2>3 DEF AreJudged
    <3> QED BY <2>3, <3>1 DEF AreOverlaid
  <2>4. CASE ~mem.offline
    <3>1. /\ AreOverlaid(mem.overlay, mem.probe, mem.texts) /\ AreJudged(mem.judged, mem.texts)
          /\ Certified(mem.result, mem.judged, mem.labels, mem.overlay, ProbeIds(mem.probe),
                       mem.repeats, mem.judgeVersion, mem.hash)
      BY <2>1, <2>4 DEF LiveComputed
    <3> QED BY <2>2, <2>3, <2>4, <3>1
  <2>5. CASE mem.offline
    <3>1. /\ judgments # None /\ mem.judged = judgments.judged
          /\ Certified(mem.result, mem.judged, mem.labels, mem.overlay, ProbeIdsOf(judgments),
                       judgments.repeats, judgments.judgeVersion, mem.labels)
      BY <2>1, <2>5 DEF OfflineComputed
    <3>2. /\ AreOverlaid(settled.overlay, settled.probe, settled.texts)
          /\ AreJudged(mem.judged, settled.texts)
      BY <2>1, <3>1 DEF Kept
    <3> QED BY <2>2, <2>3, <2>5, <3>1, <3>2
  <2> QED BY <2>1, <2>4, <2>5
<1> QED BY <1>1, Invariance, PTL

\* The parts of a certificate describe the same keys.
THEOREM PartsShareKeys == Spec => []OnePopulation
<1>1. IInv => OnePopulation
  <2> SUFFICES ASSUME IInv, mem.result # None PROVE OnePopulation
    BY DEF OnePopulation
  <2>1. Computed /\ LiveComputed /\ OfflineComputed /\ mem.offline \in BOOLEAN
    BY DEF IInv, Computed, Shaped, IsMemory
  <2>2. PICK plants, probeIds, repeats, version, hash :
          Certified(mem.result, mem.judged, mem.labels, plants, probeIds, repeats, version, hash)
    <3>1. CASE ~mem.offline
      BY <2>1, <3>1 DEF LiveComputed
    <3>2. CASE mem.offline
      BY <2>1, <3>2 DEF OfflineComputed
    <3> QED BY <2>1, <3>1, <3>2
  <2> QED BY <2>2, CertifiedPopulation, Zenon DEF OnePopulation
<1> QED BY <1>1, Invariance, PTL

\* The committed certificate and the persisted judgments agree, unless a command
\* was killed or could not write since the latest live calibration that ended.
THEOREM PairStaysWhole == Spec => []OnlyFaultsSplitThePair
<1>1. IInv => OnlyFaultsSplitThePair
  BY DEF IInv, Paired, OnlyFaultsSplitThePair
<1> QED BY <1>1, Invariance, PTL

\* An offline calibration over the files of the latest live one gives the
\* certificate that one gave, and no offline certificate names another judge.
THEOREM OfflineAgrees == Spec => []OfflineReproducesLive
<1>1. IInv => OfflineReproducesLive
  <2> SUFFICES ASSUME IInv PROVE OfflineReproducesLive
    OBVIOUS
  <2>1. LiveComputed /\ OfflineComputed /\ Kept /\ Refused /\ Shaped
    BY DEF IInv
  <2>2. None \notin JudgmentFiles
    BY CalibrationAssumption
  <2>3. ASSUME mem.offline, mem.result # None PROVE mem.result.judgeVersion = settled.judge
    <3>1. Computed
      BY <2>3 DEF Computed
    <3>2. /\ judgments # None
          /\ Certified(mem.result, judgments.judged, mem.labels, mem.overlay, ProbeIdsOf(judgments),
                       judgments.repeats, judgments.judgeVersion, mem.labels)
      BY <2>1, <2>3, <3>1 DEF OfflineComputed
    <3>3. judgments.judgeVersion = settled.judge
      BY <2>1, <3>2 DEF Kept
    <3> QED BY <3>2, <3>3, CertifiedVerdicts
  <2>4. ASSUME pc = "ended", mem.offline, settled # None,
               outcome \notin {"killed", "OSError"},
               mem.labels = settled.labels, mem.overlay = settled.overlay,
               mem.judgeVersion = settled.judge,
               settled.certificate.labelFileHash = settled.labels,
               settled.probe => ProbeKeys(settled.texts) # {}
        PROVE  outcome = "ok" /\ mem.result = settled.certificate
    <3>1. /\ judgments \in JudgmentFiles /\ AreTexts(settled.texts, settled.probe)
          /\ AreOverlaid(settled.overlay, settled.probe, settled.texts)
          /\ AreJudged(judgments.judged, settled.texts)
          /\ judgments.probe = ProbeKeys(settled.texts) /\ judgments.judgeVersion = settled.judge
          /\ Certified(settled.certificate, judgments.judged, settled.labels, settled.overlay,
                       ProbeIds(settled.probe), judgments.repeats, settled.judge, settled.labels)
      BY <2>1, <2>4 DEF Kept
    <3>2. judgments # None
      BY <2>2, <3>1
    <3>3. PICK probe \in BOOLEAN : ProbeIds(probe) = ProbeIds(settled.probe) /\ (probe <=> settled.probe)
      <4>1. CASE settled.probe
        BY <4>1 DEF ProbeIds
      <4>2. CASE ~settled.probe
        BY <4>2 DEF ProbeIds
      <4> QED BY <4>1, <4>2
    <3>4. AreTexts(settled.texts, probe) /\ (probe => ProbeKeys(settled.texts) # {})
      BY <2>4, <3>1, <3>3 DEF AreTexts
    <3>5. DOMAIN judgments.judged = DOMAIN settled.texts
      BY <3>1 DEF AreJudged
    <3>6. ProbeIdsOf(judgments) = {k.item : k \in ProbeKeys(settled.texts)}
      BY <3>1 DEF ProbeIdsOf
    <3>7. /\ \A rows : OverlayError(rows, ProbeIds(probe), ProbeKeys(settled.texts)) = None
                         => OverlayError(rows, ProbeIdsOf(judgments), ProbeKeys(settled.texts)) = None
          /\ \A rows : StatisticsError(judgments.judged, rows, ProbeIdsOf(judgments))
                         = StatisticsError(judgments.judged, rows, ProbeIds(probe))
          /\ \A rows, plants, repeats, version, hash :
               Result(judgments.judged, rows, plants, ProbeIdsOf(judgments), repeats, version, hash)
                 = Result(judgments.judged, rows, plants, ProbeIds(probe), repeats, version, hash)
      <4>1. SameStatistics(judgments.judged, ProbeKeys(settled.texts), ProbeIdsOf(judgments), ProbeIds(probe))
        BY <3>3, <3>4, <3>5, <3>6, SameDisclosure
      <4> QED BY <4>1 DEF SameStatistics
    <3>8. /\ GoldError(mem.labels) = None /\ PairError(judgments.judged, Gold(mem.labels)) = None
          /\ StatisticsError(judgments.judged, mem.labels, ProbeIds(probe)) = None
          /\ settled.certificate = Result(judgments.judged, mem.labels, mem.overlay, ProbeIds(probe),
                                          judgments.repeats, mem.judgeVersion, mem.labels)
      BY <2>4, <3>1, <3>3 DEF Certified
    <3>9. OverlayError(mem.overlay, ProbeIdsOf(judgments), judgments.probe) = None
      <4>1. OverlayError(mem.overlay, ProbeIds(probe), ProbeKeys(settled.texts)) = None
        BY <2>4, <3>1, <3>3 DEF AreOverlaid
      <4> QED BY <3>1, <3>7, <4>1
    <3>10. ~OfflineFails(judgments, mem.labels, mem.overlay, mem.judgeVersion)
      BY <2>4, <3>1, <3>7, <3>8, <3>9 DEF OfflineFails
    <3>11. outcome = "ok"
      BY <2>1, <2>4, <3>2, <3>10 DEF Refused
    <3>12. Certified(mem.result, judgments.judged, mem.labels, mem.overlay, ProbeIdsOf(judgments),
                     judgments.repeats, judgments.judgeVersion, mem.labels)
      BY <2>1, <2>4, <3>11 DEF OfflineComputed, Computed
    <3>13. mem.result = Result(judgments.judged, mem.labels, mem.overlay, ProbeIdsOf(judgments),
                               judgments.repeats, mem.judgeVersion, mem.labels)
      BY <2>4, <3>1, <3>12 DEF Certified
    <3> QED BY <3>7, <3>8, <3>11, <3>13
  <2> QED BY <2>3, <2>4 DEF OfflineReproducesLive
<1> QED BY <1>1, Invariance, PTL
=============================================================================
