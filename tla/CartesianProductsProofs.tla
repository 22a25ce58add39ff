---------------------- MODULE CartesianProductsProofs ----------------------
(* Proofs about the walk of KeyReasoning, for any catalog, SELECT,         *)
(* database and key, and about the Cartesian product rule, which           *)
(* implements it, for any words, meanings and contents.                    *)
EXTENDS CartesianProducts, TLAPS

USE KeyAssumption DEF KeyAssumption

---------------------------------------------------------------------------
(* What the assumptions say of the query at hand.                          *)
LEMMA QueryFacts ==
  ASSUME TypeOK
  PROVE  /\ query \in Select /\ WellFormed(query)
         /\ query.size \in Nat /\ query.size >= 1 /\ query.size <= MaxSources
         /\ \A s \in 1..query.size : s \in Sources /\ query.from[s] \in Tables
                                     /\ Meta(s) \in Entry
<1>1. query \in Select /\ WellFormed(query)
  BY DEF TypeOK
<1>2. query.size \in Sources /\ query.from \in [Sources -> Tables]
  BY <1>1 DEF Select
<1> QED BY <1>1, <1>2 DEF Sources, Meta

LEMMA KeysVerified == TypeOK => KeyVerified(db)
BY DEF TypeOK

(* A row of a table is determined by its cells in a verified key.          *)
LEMMA KeyDetermines ==
  ASSUME NEW d \in Databases, NEW T \in Tables, Catalog[T].key # {},
         NEW r1 \in DOMAIN d[T], NEW r2 \in DOMAIN d[T],
         \A n \in Catalog[T].key :
            Canonical(Catalog[T].signature[n], d[T][r1][n]) =
              Canonical(Catalog[T].signature[n], d[T][r2][n])
  PROVE  r1 = r2
<1>1. KeyVerified(d)  OBVIOUS
<1> QED BY <1>1 DEF KeyVerified

LEMMA KeyNotNull ==
  ASSUME TypeOK, NEW s \in 1..query.size, NEW r \in DOMAIN db[query.from[s]],
         NEW n \in Meta(s).key \cup Meta(s).notnull
  PROVE  db[query.from[s]][r][n] # None /\ db[query.from[s]][r][n] \in Values
<1> DEFINE t == query.from[s]
<1>1. t \in Tables /\ Meta(s) \in Entry  BY QueryFacts
<1>2. n \in Names  BY <1>1 DEF Entry
<1>3. KeyVerified(db) /\ db \in Databases  BY KeysVerified DEF TypeOK
<1>4. n \in Catalog[t].key \cup Catalog[t].notnull  BY DEF Meta
<1> HIDE DEF t
<1>5. r \in DOMAIN db[t]  BY DEF t
<1>6. db[t][r][n] # None  BY <1>1, <1>3, <1>4, <1>5 DEF KeyVerified
<1>7. db[t][r] \in [Names -> Cells]  BY <1>1, <1>3, <1>5
<1>8. db[t][r][n] \in Values  BY <1>2, <1>6, <1>7 DEF Cells
<1> QED BY <1>6, <1>8 DEF t

(* A cell compares as NULL only if it is NULL.                             *)
LEMMA CanonicalNull ==
  ASSUME NEW sig \in Signatures \cup {None}, NEW v \in Cells
  PROVE  Canonical(sig, v) = None <=> v = None
BY DEF Canonical, Cells

(* Two rows that agree on a verified key hold the same row of its table,   *)
(* or are both padded.                                                     *)
LEMMA SameKeySameRow ==
  ASSUME TypeOK, NEW s \in 1..at, NEW j \in rows, NEW k \in rows,
         Meta(s).key # {}, \A n \in Meta(s).key : SameOn(j, k, <<s, n>>)
  PROVE  j[s] = k[s]
<1> DEFINE T == query.from[s]
<1>1. s \in 1..query.size  BY QueryFacts DEF TypeOK
<1>2. Meta(s) \in Entry  BY <1>1, QueryFacts
<1>3. \A n \in Meta(s).key : n \in Names /\ Meta(s).signature[n] \in Signatures \cup {None}
  BY <1>2 DEF Entry
<1>4. /\ j[s] = 0 \/ j[s] \in DOMAIN db[T]
      /\ k[s] = 0 \/ k[s] \in DOMAIN db[T]
  BY DEF TypeOK
<1>5. \A n \in Meta(s).key : Signature(<<s, n>>) = Meta(s).signature[n]
  BY DEF Signature
<1>6. \A i \in rows : \A n \in Meta(s).key : i[s] # 0 =>
        Key(i, <<s, n>>) = Canonical(Meta(s).signature[n], db[T][i[s]][n])
  BY <1>5 DEF Key, Cell
<1>7. \A i \in rows : \A n \in Meta(s).key : i[s] = 0 => Key(i, <<s, n>>) = None
  BY <1>5 DEF Key, Cell, Canonical
<1>8. \A i \in rows : \A n \in Meta(s).key : i[s] # 0 => Key(i, <<s, n>>) # None
  <2> TAKE i \in rows
  <2> TAKE n \in Meta(s).key
  <2>1. SUFFICES ASSUME i[s] # 0 PROVE Key(i, <<s, n>>) # None  OBVIOUS
  <2>2. i[s] \in DOMAIN db[T]  BY <2>1 DEF TypeOK
  <2>3. db[T][i[s]][n] # None /\ db[T][i[s]][n] \in Values
    BY <1>1, <2>2, KeyNotNull
  <2>4. db[T][i[s]][n] \in Cells  BY <2>3 DEF Cells
  <2>5. Canonical(Meta(s).signature[n], db[T][i[s]][n]) # None
    BY <1>3, <2>3, <2>4, CanonicalNull
  <2> QED BY <1>6, <2>1, <2>5
<1>9. PICK m : m \in Meta(s).key  OBVIOUS
<1>10. j[s] = 0 <=> k[s] = 0
  BY <1>7, <1>8, <1>9 DEF SameOn
<1>11. CASE j[s] # 0
  <2>1. \A n \in Meta(s).key : Canonical(Meta(s).signature[n], db[T][j[s]][n]) =
                                 Canonical(Meta(s).signature[n], db[T][k[s]][n])
    BY <1>6, <1>10, <1>11 DEF SameOn
  <2>2. j[s] \in DOMAIN db[T] /\ k[s] \in DOMAIN db[T]  BY <1>4, <1>10, <1>11
  <2>3. T \in Tables /\ db \in Databases  BY <1>1, QueryFacts DEF TypeOK
  <2>4. Catalog[T].key # {} /\ Meta(s) = Catalog[T]  BY DEF Meta
  <2>5. \A n \in Catalog[T].key : Canonical(Catalog[T].signature[n], db[T][j[s]][n]) =
                                     Canonical(Catalog[T].signature[n], db[T][k[s]][n])
    BY <2>1, <2>4
  <2> HIDE DEF T
  <2> QED BY <2>2, <2>3, <2>4, <2>5, KeyDetermines
<1> QED BY <1>10, <1>11

---------------------------------------------------------------------------
(* What every step maintains.                                              *)
Joinedc(c) == c[1] \in 1..at

ClassesAgree == \A c \in Col : c \in equated[c] /\ \A d \in equated[c] :
  \/ d = c
  \/ Joinedc(c) /\ Joinedc(d) /\ \A j \in rows : Agree(j, c, d)

TodoAgrees == \A e \in todo :
  Joinedc(e[1]) /\ Joinedc(e[2]) /\ \A j \in rows : Agree(j, e[1], e[2])

GrainInv == grain =>
  /\ \A i \in 2..at : query.join[i].kind \in {"inner", "left"}
  /\ \A j \in rows : j[1] # 0
  /\ \A j, k \in rows : j[1] = k[1] => j = k

PaddingInv == (\A i \in 2..at : ~NullExtends(i)) =>
  \A j \in rows : \A s \in 1..at : j[s] # 0
JoinRejectsInv == (\A i \in 2..at : ~NullExtends(i)) =>
  \A i \in 2..at : query.join[i].form = "on" =>
    \A c \in query.join[i].on.rejects : \A j \in rows : Cell(j, c) # None
WhereInv == filtered =>
  at = query.size /\ \A c \in query.where.rejects : \A j \in rows : Cell(j, c) # None

(* What the detector reads of a USING or NATURAL is true where it knows    *)
(* the sources; which query runs is settled from the start.                *)
KeyInv == /\ TypeOK /\ (MergesKnown => ClassesAgree /\ TodoAgrees /\ GrainInv)
          /\ PaddingInv /\ JoinRejectsInv /\ WhereInv

(* The clauses of the query speak of sources joined when they are applied. *)
LEMMA ClauseFacts ==
  ASSUME TypeOK
  PROVE  /\ \A i \in 2..query.size :
              /\ query.join[i] \in Join /\ i \in Sources
              /\ \A e \in query.join[i].on.equal : e \in Col \X Col
                   /\ e[1][1] \in 1..i /\ e[2][1] \in 1..i
              /\ \A c \in query.join[i].on.rejects : c \in Col /\ c[1] \in 1..i
         /\ \A e \in query.where.equal : e \in Col \X Col
              /\ e[1][1] \in 1..query.size /\ e[2][1] \in 1..query.size
         /\ \A c \in query.where.rejects : c \in Col /\ c[1] \in 1..query.size
<1>1. query \in Select /\ WellFormed(query) /\ \A s \in 1..query.size : s \in Sources
  BY QueryFacts
<1>2. query.where \in Clause /\ \A i \in Sources : query.join[i] \in Join
  BY <1>1 DEF Select
<1>3. \A i \in 2..query.size : i \in 1..query.size
  BY QueryFacts
<1>4. \A i \in 2..query.size : query.join[i] \in Join /\ query.join[i].on \in Clause /\ i \in Sources
  BY <1>1, <1>2, <1>3 DEF Join
<1>5. /\ \A i \in 2..query.size : ClauseWithin(query, query.join[i].on, i)
      /\ ClauseWithin(query, query.where, query.size)
  BY <1>1 DEF WellFormed
<1>6. \A i \in 2..query.size :
        /\ \A e \in query.join[i].on.equal : e \in Col \X Col
             /\ e[1][1] \in 1..i /\ e[2][1] \in 1..i
        /\ \A c \in query.join[i].on.rejects : c \in Col /\ c[1] \in 1..i
  BY <1>4, <1>5 DEF Clause, ClauseWithin, InQuery
<1>7. /\ \A e \in query.where.equal : e \in Col \X Col
           /\ e[1][1] \in 1..query.size /\ e[2][1] \in 1..query.size
      /\ \A c \in query.where.rejects : c \in Col /\ c[1] \in 1..query.size
  BY <1>2, <1>5 DEF Clause, ClauseWithin, InQuery
<1> QED BY <1>4, <1>6, <1>7

(* The equalities of a join are between columns of joined sources.         *)
LEMMA JoinPairs ==
  ASSUME TypeOK, NEW i \in 2..query.size,
         NEW e \in ReadEqualities(i) \cup JoinEqualities(i)
  PROVE  e \in Col \X Col /\ e[1][1] \in 1..i /\ e[2][1] \in 1..i
<1>1. CASE query.join[i].form = "on"
  BY <1>1, ClauseFacts DEF ReadEqualities, JoinEqualities
<1>2. CASE query.join[i].form # "on"
  <2>0. e \in Merged(i)
    BY <1>2 DEF ReadEqualities, JoinEqualities, MergedByOne, Leftmost
  <2>1. PICK s \in 1..(i - 1), n \in Shared(i) : e = <<<<s, n>>, <<i, n>>>>
    BY <2>0 DEF Merged
  <2>2. i \in 1..query.size /\ s \in 1..query.size /\ s \in 1..i /\ i \in 1..i
    BY QueryFacts
  <2>3. Meta(i) \in Entry /\ i \in Sources /\ s \in Sources  BY <2>2, QueryFacts
  <2>4. n \in Meta(i).names  BY DEF Shared
  <2>5. n \in Names  BY <2>3, <2>4 DEF Entry
  <2> QED BY <2>1, <2>2, <2>3, <2>5 DEF Col
<1> QED BY <1>1, <1>2

(* Of sources it knows the detector reads what the engine compares: a      *)
(* column with one owner has one bearer.                                   *)
LEMMA ReadIsJoined ==
  ASSUME TypeOK, MergesKnown, NEW i \in 2..query.size
  PROVE  Readable(ReadEqualities(i)) \subseteq Readable(JoinEqualities(i))
<1> SUFFICES ASSUME NEW e \in ReadEqualities(i) PROVE e \in JoinEqualities(i)
  BY DEF Readable
<1>1. CASE query.join[i].form = "on"
  BY <1>1 DEF ReadEqualities, JoinEqualities
<1>2. CASE query.join[i].form # "on"
  <2>1. e \in Merged(i) /\ Owners(i, e[2][2]) = {e[1][1]}
    BY <1>2 DEF ReadEqualities, MergedByOne
  <2>2. PICK s \in 1..(i - 1), n \in Shared(i) : e = <<<<s, n>>, <<i, n>>>>
    BY <2>1 DEF Merged
  <2>3. Owners(i, n) = {s}  BY <2>1, <2>2
  <2>4. Bearers(i, n) = {s}
    <3>1. \A t \in Bearers(i, n) : ~Meta(t).derived  BY <1>2 DEF MergesKnown
    <3> QED BY <2>3, <3>1 DEF Owners
  <2>5. ~Coalesced(i, n)  BY <2>4 DEF Coalesced
  <2>6. s \in Bearers(i, n) /\ \A t \in Bearers(i, n) : s <= t  BY <2>4
  <2> QED BY <1>2, <2>1, <2>2, <2>5, <2>6 DEF JoinEqualities, Leftmost
<1> QED BY <1>1, <1>2

(* A row's cells are those of the row it extends; a row padded on the left *)
(* holds NULL in all of them.                                              *)
LEMMA ExtendedRow ==
  ASSUME NEW i \in Nat, NEW c, c[1] \in 1..(i - 1), NEW k, NEW r
  PROVE  /\ Cell(Extend(k, i, r), c) = Cell(k, c) /\ Key(Extend(k, i, r), c) = Key(k, c)
         /\ Cell(Pad(i, r), c) = None /\ Key(Pad(i, r), c) = None
<1>1. c[1] \in 1..i /\ c[1] # i  OBVIOUS
<1>2. Extend(k, i, r)[c[1]] = k[c[1]] /\ Pad(i, r)[c[1]] = 0
  BY <1>1 DEF Extend, Pad
<1>3. Cell(Extend(k, i, r), c) = Cell(k, c) /\ Cell(Pad(i, r), c) = None
  BY <1>2 DEF Cell
<1> QED BY <1>3 DEF Key, Canonical

(* The rows of a join keep to their type.                                  *)
LEMMA JoinedRowType ==
  ASSUME TypeOK, NEW i \in 2..query.size, i = at + 1,
         NEW matched \in SUBSET Candidates(i),
         NEW j \in matched \cup PaddedRight(i, matched) \cup PaddedLeft(i, matched)
  PROVE  /\ j \in [1..i -> Nat]
         /\ \A s \in 1..i : j[s] = 0 \/ j[s] \in DOMAIN db[query.from[s]]
<1>1. query.from[i] \in Tables /\ db \in Databases /\ at \in Nat
  BY QueryFacts DEF TypeOK
<1>2. \A r \in DOMAIN db[query.from[i]] : r \in Nat
  BY <1>1
<1>3. \A s \in 1..i : s = i \/ s \in 1..at
  BY <1>1
<1>4. \A k \in rows : \A r \in {0} \cup DOMAIN db[query.from[i]] :
        /\ Extend(k, i, r) \in [1..i -> Nat]
        /\ \A s \in 1..i : Extend(k, i, r)[s] = 0 \/ Extend(k, i, r)[s] \in DOMAIN db[query.from[s]]
  BY <1>2, <1>3 DEF Extend, TypeOK
<1>5. \A r \in DOMAIN db[query.from[i]] :
        /\ Pad(i, r) \in [1..i -> Nat]
        /\ \A s \in 1..i : Pad(i, r)[s] = 0 \/ Pad(i, r)[s] \in DOMAIN db[query.from[s]]
  BY <1>2 DEF Pad
<1>6. \/ \E k \in rows, r \in {0} \cup DOMAIN db[query.from[i]] : j = Extend(k, i, r)
      \/ \E r \in DOMAIN db[query.from[i]] : j = Pad(i, r)
  BY DEF Candidates, PaddedRight, PaddedLeft
<1>7. CASE \E k \in rows, r \in {0} \cup DOMAIN db[query.from[i]] : j = Extend(k, i, r)
  BY <1>4, <1>7
<1>8. CASE \E r \in DOMAIN db[query.from[i]] : j = Pad(i, r)
  BY <1>5, <1>8
<1> QED BY <1>6, <1>7, <1>8

---------------------------------------------------------------------------
(* The steps: first what a join does to each part of the invariant.        *)
LEMMA JoinStep ==
  ASSUME KeyInv, JoinNext
  PROVE  \E matched \in SUBSET Candidates(at + 1) :
           /\ rows' = matched \cup PaddedRight(at + 1, matched) \cup PaddedLeft(at + 1, matched)
           /\ at + 1 \in 2..query.size /\ at \in Nat /\ at >= 1
           /\ at' = at + 1 /\ UNCHANGED <<query, db, filtered, equated>>
           /\ todo' = todo \cup ReadFromJoin(at + 1)
           /\ grain' = (grain /\ JoinKeepsGrain(at + 1))
<1>1. query.size \in Nat /\ at \in 1..query.size  BY QueryFacts DEF KeyInv, TypeOK
<1>2. \E matched \in SUBSET Candidates(at + 1) :
        rows' = matched \cup PaddedRight(at + 1, matched) \cup PaddedLeft(at + 1, matched)
  BY DEF JoinNext, Chosen
<1> QED BY <1>1, <1>2 DEF JoinNext

(* Two columns equal in every row stay equal in every row, padded or not.  *)
LEMMA AgreementExtends ==
  ASSUME TypeOK, NEW i \in Nat, i = at + 1, NEW matched \in SUBSET Candidates(i),
         NEW j \in matched \cup PaddedRight(i, matched) \cup PaddedLeft(i, matched),
         NEW c, NEW d, Joinedc(c), Joinedc(d), \A k \in rows : Agree(k, c, d)
  PROVE  Agree(j, c, d)
<1>0. at \in Nat /\ c[1] \in 1..(i - 1) /\ d[1] \in 1..(i - 1)
  <2>1. at \in Nat /\ i - 1 = at  BY QueryFacts DEF TypeOK
  <2> QED BY <2>1 DEF Joinedc
<1>1. ASSUME NEW k \in rows, NEW r PROVE Agree(Extend(k, i, r), c, d)
  <2>1. Key(Extend(k, i, r), c) = Key(k, c)  BY <1>0, ExtendedRow
  <2>2. Key(Extend(k, i, r), d) = Key(k, d)  BY <1>0, ExtendedRow
  <2> QED BY <2>1, <2>2 DEF Agree
<1>2. ASSUME NEW r PROVE Agree(Pad(i, r), c, d)
  <2>1. Key(Pad(i, r), c) = None  BY <1>0, ExtendedRow
  <2>2. Key(Pad(i, r), d) = None  BY <1>0, ExtendedRow
  <2> QED BY <2>1, <2>2 DEF Agree
<1>3. (\E k \in rows : \E r : j = Extend(k, i, r)) \/ (\E r : j = Pad(i, r))
  BY DEF Candidates, PaddedRight, PaddedLeft
<1> QED BY <1>1, <1>2, <1>3

(* The equalities read from an inner join hold in all its rows.            *)
LEMMA ReadHolds ==
  ASSUME TypeOK, MergesKnown, NEW i \in 2..query.size, NEW matched \in SUBSET Candidates(i),
         NEW j \in matched \cup PaddedRight(i, matched) \cup PaddedLeft(i, matched),
         query.join[i] \in Join, NEW e \in ReadFromJoin(i)
  PROVE  Agree(j, e[1], e[2])
<1>1. ~NullExtends(i) /\ e \in Readable(JoinEqualities(i))
  BY ReadIsJoined DEF ReadFromJoin
<1>2. j \in matched
  BY <1>1 DEF NullExtends, PaddedRight, PaddedLeft
<1>3. Passes(j, JoinEqualities(i), IF query.join[i].form = "on"
                                   THEN query.join[i].on.rejects ELSE {})
  BY <1>2 DEF Candidates
<1> QED BY <1>1, <1>3 DEF Passes, Readable, Compatible

LEMMA JoinType == KeyInv /\ JoinNext => TypeOK'
<1> SUFFICES ASSUME KeyInv, JoinNext PROVE TypeOK'  OBVIOUS
<1>1. PICK matched \in SUBSET Candidates(at + 1) :
           /\ rows' = matched \cup PaddedRight(at + 1, matched) \cup PaddedLeft(at + 1, matched)
           /\ at + 1 \in 2..query.size /\ at \in Nat /\ at >= 1
           /\ at' = at + 1 /\ UNCHANGED <<query, db, filtered, equated>>
           /\ todo' = todo \cup ReadFromJoin(at + 1)
           /\ grain' = (grain /\ JoinKeepsGrain(at + 1))
  BY JoinStep
<1>2. TypeOK  BY DEF KeyInv
<1>3. at' \in 1..query.size
  BY <1>1, QueryFacts, <1>2
<1>4. \A j \in rows' : j \in [1..at' -> Nat]
                       /\ \A s \in 1..at' : j[s] = 0 \/ j[s] \in DOMAIN db[query.from[s]]
  BY <1>1, <1>2, JoinedRowType
<1>5. \A e \in ReadFromJoin(at + 1) : e \in Col \X Col
  BY <1>1, <1>2, JoinPairs DEF ReadFromJoin, Readable
<1>6. grain' \in BOOLEAN
  BY <1>1
<1>7. query' \in Queries /\ db' \in Databases /\ filtered' \in BOOLEAN
      /\ equated' \in [Col -> SUBSET Col] /\ todo' \subseteq Col \X Col
  BY <1>1, <1>2, <1>5 DEF TypeOK
<1>8. rows' \subseteq [1..at' -> Nat]  BY <1>4
<1> QED BY <1>1, <1>3, <1>4, <1>6, <1>7, <1>8 DEF TypeOK

LEMMA JoinClasses == KeyInv /\ MergesKnown /\ JoinNext => ClassesAgree' /\ TodoAgrees'
<1> SUFFICES ASSUME KeyInv, MergesKnown, JoinNext PROVE ClassesAgree' /\ TodoAgrees'  OBVIOUS
<1>1. PICK matched \in SUBSET Candidates(at + 1) :
           /\ rows' = matched \cup PaddedRight(at + 1, matched) \cup PaddedLeft(at + 1, matched)
           /\ at + 1 \in 2..query.size /\ at \in Nat /\ at >= 1
           /\ at' = at + 1 /\ UNCHANGED <<query, db, filtered, equated>>
           /\ todo' = todo \cup ReadFromJoin(at + 1)
           /\ grain' = (grain /\ JoinKeepsGrain(at + 1))
  BY JoinStep
<1>2. TypeOK  BY DEF KeyInv
<1>3. ASSUME NEW c \in Col, NEW d \in Col, Joinedc(c), Joinedc(d),
             \A k \in rows : Agree(k, c, d)
      PROVE  Joinedc(c)' /\ Joinedc(d)' /\ \A j \in rows' : Agree(j, c, d)
  <2>1. \A j \in rows' : Agree(j, c, d)
    BY <1>1, <1>2, <1>3, AgreementExtends
  <2> QED BY <1>1, <1>3, <2>1 DEF Joinedc
<1>4. ASSUME NEW c, NEW d, NEW j PROVE Agree(j, c, d)' <=> Agree(j, c, d)
  BY <1>1 DEF Agree, Key, Cell, Signature, Meta
<1>5. ClassesAgree'
  <2> SUFFICES ASSUME NEW c \in Col
               PROVE c \in equated'[c] /\ \A d \in equated'[c] :
                       d = c \/ (Joinedc(c)' /\ Joinedc(d)' /\ \A j \in rows' : Agree(j, c, d)')
    BY DEF ClassesAgree
  <2>1. c \in equated[c] /\ equated[c] \subseteq Col
    BY <1>2 DEF KeyInv, ClassesAgree, TypeOK
  <2>2. ASSUME NEW d \in equated[c], d # c
        PROVE  Joinedc(c)' /\ Joinedc(d)' /\ \A j \in rows' : Agree(j, c, d)
    <3>1. Joinedc(c) /\ Joinedc(d) /\ \A k \in rows : Agree(k, c, d)
      BY <2>2 DEF KeyInv, ClassesAgree
    <3> QED BY <1>3, <2>1, <3>1
  <2> QED BY <1>1, <1>4, <2>1, <2>2
<1>6. TodoAgrees'
  <2> SUFFICES ASSUME NEW e \in todo'
               PROVE Joinedc(e[1])' /\ Joinedc(e[2])' /\ \A j \in rows' : Agree(j, e[1], e[2])'
    BY DEF TodoAgrees
  <2>1. CASE e \in todo
    <3>1. e[1] \in Col /\ e[2] \in Col  BY <1>2, <2>1 DEF TypeOK
    <3>2. Joinedc(e[1]) /\ Joinedc(e[2]) /\ \A k \in rows : Agree(k, e[1], e[2])
      BY <2>1 DEF KeyInv, TodoAgrees
    <3> QED BY <1>3, <1>4, <3>1, <3>2
  <2>2. CASE e \in ReadFromJoin(at + 1)
    <3>1. e \in ReadEqualities(at + 1)  BY <2>2 DEF ReadFromJoin, Readable
    <3>2. e[1][1] \in 1..(at + 1) /\ e[2][1] \in 1..(at + 1)
      BY <1>1, <1>2, <3>1, JoinPairs
    <3>3. query.join[at + 1] \in Join  BY <1>1, <1>2, ClauseFacts
    <3>4. \A j \in rows' : Agree(j, e[1], e[2])
      BY <1>1, <1>2, <2>2, <3>3, ReadHolds
    <3> QED BY <1>1, <1>4, <3>2, <3>4 DEF Joinedc
  <2> QED BY <1>1, <2>1, <2>2
<1> QED BY <1>5, <1>6

(* A source joined on its whole key gives each driving row one partner.    *)
LEMMA OnePartner ==
  ASSUME TypeOK, NEW i \in 2..query.size, JoinKeepsGrain(i), NEW k,
         NEW r1 \in DOMAIN db[query.from[i]], NEW r2 \in DOMAIN db[query.from[i]],
         \A e \in Readable(ReadEqualities(i)) :
           Agree(Extend(k, i, r1), e[1], e[2]) /\ Agree(Extend(k, i, r2), e[1], e[2])
  PROVE  r1 = r2
<1> DEFINE T == query.from[i]
<1>1. i \in 1..query.size /\ i \in Nat  BY QueryFacts
<1>2. Meta(i) \in Entry /\ T \in Tables /\ db \in Databases  BY <1>1, QueryFacts DEF TypeOK
<1>3. \A r \in DOMAIN db[T] : r # 0  BY <1>2
<1>4. ASSUME NEW n \in Meta(i).key
      PROVE  Canonical(Meta(i).signature[n], db[T][r1][n]) =
               Canonical(Meta(i).signature[n], db[T][r2][n])
  <2>1. ASSUME NEW r \in DOMAIN db[T]
        PROVE  Key(Extend(k, i, r), <<i, n>>) = Canonical(Meta(i).signature[n], db[T][r][n])
    <3>1. Extend(k, i, r)[i] = r  BY <1>1 DEF Extend
    <3> QED BY <1>3, <2>1, <3>1 DEF Key, Cell, Signature
  <2>2. PICK e \in Readable(ReadEqualities(i)) :
          \/ e[1] = <<i, n>> /\ e[2][1] < i
          \/ e[2] = <<i, n>> /\ e[1][1] < i
    BY DEF JoinKeepsGrain, Pinned
  <2>3. e[1][1] \in 1..i /\ e[2][1] \in 1..i
    BY JoinPairs DEF Readable
  <2>4. Agree(Extend(k, i, r1), e[1], e[2]) /\ Agree(Extend(k, i, r2), e[1], e[2])
    OBVIOUS
  <2>5. CASE e[1] = <<i, n>> /\ e[2][1] < i
    <3>1. e[2][1] \in 1..(i - 1)  BY <1>1, <2>3, <2>5
    <3>2. Key(Extend(k, i, r1), e[2]) = Key(Extend(k, i, r2), e[2])
      <4>1. Key(Extend(k, i, r1), e[2]) = Key(k, e[2])  BY <1>1, <3>1, ExtendedRow
      <4>2. Key(Extend(k, i, r2), e[2]) = Key(k, e[2])  BY <1>1, <3>1, ExtendedRow
      <4> QED BY <4>1, <4>2
    <3> QED BY <2>1, <2>4, <2>5, <3>2 DEF Agree
  <2>6. CASE e[2] = <<i, n>> /\ e[1][1] < i
    <3>1. e[1][1] \in 1..(i - 1)  BY <1>1, <2>3, <2>6
    <3>2. Key(Extend(k, i, r1), e[1]) = Key(Extend(k, i, r2), e[1])
      <4>1. Key(Extend(k, i, r1), e[1]) = Key(k, e[1])  BY <1>1, <3>1, ExtendedRow
      <4>2. Key(Extend(k, i, r2), e[1]) = Key(k, e[1])  BY <1>1, <3>1, ExtendedRow
      <4> QED BY <4>1, <4>2
    <3> QED BY <2>1, <2>4, <2>6, <3>2 DEF Agree
  <2> QED BY <2>2, <2>5, <2>6
<1>5. Catalog[T].key # {} /\ Meta(i) = Catalog[T]  BY DEF Meta, JoinKeepsGrain
<1>6. \A n \in Catalog[T].key : Canonical(Catalog[T].signature[n], db[T][r1][n]) =
                                  Canonical(Catalog[T].signature[n], db[T][r2][n])
  BY <1>4, <1>5
<1>7. r1 \in DOMAIN db[T] /\ r2 \in DOMAIN db[T]  OBVIOUS
<1> HIDE DEF T
<1> QED BY <1>2, <1>5, <1>6, <1>7, KeyDetermines

LEMMA JoinGrain == KeyInv /\ MergesKnown /\ JoinNext => GrainInv'
<1> SUFFICES ASSUME KeyInv, MergesKnown, JoinNext, grain'
             PROVE /\ \A i \in 2..at' : query'.join[i].kind \in {"inner", "left"}
                   /\ \A j \in rows' : j[1] # 0
                   /\ \A j, l \in rows' : j[1] = l[1] => j = l
  BY DEF GrainInv
<1> DEFINE i == at + 1
<1>1. PICK matched \in SUBSET Candidates(i) :
           /\ rows' = matched \cup PaddedRight(i, matched) \cup PaddedLeft(i, matched)
           /\ i \in 2..query.size /\ at \in Nat /\ at >= 1
           /\ at' = i /\ UNCHANGED <<query, db, filtered, equated>>
           /\ todo' = todo \cup ReadFromJoin(i)
           /\ grain' = (grain /\ JoinKeepsGrain(i))
  BY JoinStep
<1>2. TypeOK  BY DEF KeyInv
<1>3. grain /\ JoinKeepsGrain(i)  BY <1>1
<1>4. query.join[i].kind \in {"inner", "left"}  BY <1>3 DEF JoinKeepsGrain
<1>5. /\ \A m \in 2..at : query.join[m].kind \in {"inner", "left"}
      /\ \A k \in rows : k[1] # 0
      /\ \A k, l \in rows : k[1] = l[1] => k = l
  BY <1>3 DEF KeyInv, GrainInv
<1>6. \A m \in 2..at' : query'.join[m].kind \in {"inner", "left"}
  <2>1. \A m \in 2..i : m = i \/ m \in 2..at  BY <1>1
  <2> QED BY <1>1, <1>4, <1>5, <2>1
<1>7. \A k \in rows : \A r : Extend(k, i, r)[1] = k[1]
  BY <1>1 DEF Extend
<1>8. ASSUME NEW j \in rows'
      PROVE  \E k \in rows :
               \/ /\ j = Extend(k, i, 0)
                  /\ \A r \in DOMAIN db[query.from[i]] : Extend(k, i, r) \notin matched
               \/ \E r \in DOMAIN db[query.from[i]] :
                    /\ j = Extend(k, i, r) /\ j \in matched
                    /\ \A e \in Readable(ReadEqualities(i)) : Agree(j, e[1], e[2])
  <2>1. PaddedLeft(i, matched) = {}  BY <1>4 DEF PaddedLeft
  <2>2. CASE j \in matched
    <3>1. PICK k \in rows, r \in DOMAIN db[query.from[i]] : j = Extend(k, i, r)
      BY <2>2 DEF Candidates
    <3>2. \A e \in JoinEqualities(i) :
            Signature(e[1]) = Signature(e[2]) /\ Signature(e[1]) # None => Agree(j, e[1], e[2])
      BY <2>2 DEF Candidates, Passes
    <3>3. \A e \in Readable(ReadEqualities(i)) : Agree(j, e[1], e[2])
      <4>1. \A e \in Readable(JoinEqualities(i)) : Agree(j, e[1], e[2])
        BY <3>2 DEF Readable, Compatible
      <4> QED BY <1>1, <1>2, <4>1, ReadIsJoined
    <3> QED BY <2>2, <3>1, <3>3
  <2>3. CASE j \in PaddedRight(i, matched)
    BY <2>3 DEF PaddedRight
  <2> QED BY <1>1, <2>1, <2>2, <2>3
<1> HIDE DEF i
<1>9. \A j \in rows' : j[1] # 0
  BY <1>5, <1>7, <1>8
<1>10. ASSUME NEW j \in rows', NEW l \in rows', j[1] = l[1] PROVE j = l
  <2>1. PICK k \in rows :
               \/ /\ j = Extend(k, i, 0)
                  /\ \A r \in DOMAIN db[query.from[i]] : Extend(k, i, r) \notin matched
               \/ \E r \in DOMAIN db[query.from[i]] :
                    /\ j = Extend(k, i, r) /\ j \in matched
                    /\ \A e \in Readable(ReadEqualities(i)) : Agree(j, e[1], e[2])
    BY <1>8
  <2>2. PICK k2 \in rows :
               \/ /\ l = Extend(k2, i, 0)
                  /\ \A r \in DOMAIN db[query.from[i]] : Extend(k2, i, r) \notin matched
               \/ \E r \in DOMAIN db[query.from[i]] :
                    /\ l = Extend(k2, i, r) /\ l \in matched
                    /\ \A e \in Readable(ReadEqualities(i)) : Agree(l, e[1], e[2])
    BY <1>8
  <2>3. k[1] = k2[1]  BY <1>7, <1>10, <2>1, <2>2
  <2>4. k = k2  BY <1>5, <2>3
  <2>5. CASE j = Extend(k, i, 0) /\ \A r \in DOMAIN db[query.from[i]] : Extend(k, i, r) \notin matched
    BY <2>2, <2>4, <2>5
  <2>6. CASE l = Extend(k, i, 0) /\ \A r \in DOMAIN db[query.from[i]] : Extend(k, i, r) \notin matched
    BY <2>1, <2>6
  <2>7. CASE /\ \E r \in DOMAIN db[query.from[i]] :
                    /\ j = Extend(k, i, r) /\ j \in matched
                    /\ \A e \in Readable(ReadEqualities(i)) : Agree(j, e[1], e[2])
             /\ \E r \in DOMAIN db[query.from[i]] :
                    /\ l = Extend(k, i, r) /\ l \in matched
                    /\ \A e \in Readable(ReadEqualities(i)) : Agree(l, e[1], e[2])
    <3>1. PICK r1 \in DOMAIN db[query.from[i]] :
                    /\ j = Extend(k, i, r1)
                    /\ \A e \in Readable(ReadEqualities(i)) : Agree(j, e[1], e[2])
      BY <2>7
    <3>2. PICK r2 \in DOMAIN db[query.from[i]] :
                    /\ l = Extend(k, i, r2)
                    /\ \A e \in Readable(ReadEqualities(i)) : Agree(l, e[1], e[2])
      BY <2>7
    <3>3. r1 = r2  BY <1>1, <1>2, <1>3, <3>1, <3>2, OnePartner
    <3> QED BY <3>1, <3>2, <3>3
  <2> QED BY <2>1, <2>2, <2>4, <2>5, <2>6, <2>7
<1> QED BY <1>6, <1>9, <1>10

(* Without an outer join no source is padded, and what an ON rejects stays *)
(* rejected.                                                               *)
LEMMA JoinNulls == KeyInv /\ JoinNext => PaddingInv' /\ JoinRejectsInv' /\ WhereInv'
<1> SUFFICES ASSUME KeyInv, JoinNext PROVE PaddingInv' /\ JoinRejectsInv' /\ WhereInv'  OBVIOUS
<1> DEFINE i == at + 1
<1>1. PICK matched \in SUBSET Candidates(i) :
           /\ rows' = matched \cup PaddedRight(i, matched) \cup PaddedLeft(i, matched)
           /\ i \in 2..query.size /\ at \in Nat /\ at >= 1
           /\ at' = i /\ UNCHANGED <<query, db, filtered, equated>>
           /\ todo' = todo \cup ReadFromJoin(i)
           /\ grain' = (grain /\ JoinKeepsGrain(i))
  BY JoinStep
<1>2. TypeOK /\ query.size \in Nat  BY QueryFacts DEF KeyInv
<1>3. \A m \in 2..i : m = i \/ m \in 2..at  BY <1>1
<1>4. \A m : NullExtends(m)' <=> NullExtends(m)
  BY <1>1 DEF NullExtends
<1>5. ASSUME \A m \in 2..at' : ~NullExtends(m)'
      PROVE  /\ \A m \in 2..at : ~NullExtends(m)
             /\ \A j \in rows' : \E k \in rows, r \in DOMAIN db[query.from[i]] :
                  /\ j = Extend(k, i, r)
                  /\ Passes(j, JoinEqualities(i), IF query.join[i].form = "on"
                                                  THEN query.join[i].on.rejects ELSE {})
  <2>1. 2..at \subseteq 2..at' /\ i \in 2..at'  BY <1>1
  <2>2. ~NullExtends(i)  BY <1>4, <1>5, <2>1
  <2>3. PaddedRight(i, matched) = {} /\ PaddedLeft(i, matched) = {}
    BY <2>2 DEF NullExtends, PaddedRight, PaddedLeft
  <2>4. rows' = matched  BY <1>1, <2>3
  <2> HIDE DEF i
  <2>5. \A j \in rows' : \E k \in rows, r \in DOMAIN db[query.from[i]] :
                  /\ j = Extend(k, i, r)
                  /\ Passes(j, JoinEqualities(i), IF query.join[i].form = "on"
                                                  THEN query.join[i].on.rejects ELSE {})
    BY <2>4 DEF Candidates
  <2> QED BY <1>4, <1>5, <2>1, <2>5
<1>6. \A r \in DOMAIN db[query.from[i]] : r # 0
  <2>1. i \in 1..query.size  BY <1>1, <1>2
  <2> QED BY <1>2, <2>1, QueryFacts DEF TypeOK
<1>7. PaddingInv'
  <2> SUFFICES ASSUME \A m \in 2..at' : ~NullExtends(m)', NEW j \in rows', NEW s \in 1..at'
               PROVE  j[s] # 0
    BY DEF PaddingInv
  <2>1. PICK k \in rows, r \in DOMAIN db[query.from[i]] : j = Extend(k, i, r)
    BY <1>5
  <2>2. k[s] # 0 \/ s = i
    <3>1. s = i \/ s \in 1..at  BY <1>1
    <3> QED BY <1>5, <3>1 DEF KeyInv, PaddingInv
  <2>3. j[s] = IF s = i THEN r ELSE k[s]
    BY <1>1, <2>1 DEF Extend
  <2> QED BY <1>6, <2>2, <2>3
<1>8. JoinRejectsInv'
  <2> SUFFICES ASSUME \A m \in 2..at' : ~NullExtends(m)',
                      NEW m \in 2..at', query'.join[m].form = "on",
                      NEW c \in query'.join[m].on.rejects, NEW j \in rows'
               PROVE  Cell(j, c)' # None
    BY DEF JoinRejectsInv
  <2>0. Cell(j, c)' = Cell(j, c)  BY <1>1 DEF Cell
  <2>1. PICK k \in rows, r \in DOMAIN db[query.from[i]] :
                  /\ j = Extend(k, i, r)
                  /\ Passes(j, JoinEqualities(i), IF query.join[i].form = "on"
                                                  THEN query.join[i].on.rejects ELSE {})
    BY <1>5
  <2>2. query.join[m].form = "on" /\ c \in query.join[m].on.rejects  BY <1>1
  <2>3. CASE m = i
    BY <2>0, <2>1, <2>2, <2>3 DEF Passes
  <2>4. CASE m \in 2..at
    <3>1. Cell(k, c) # None
      BY <1>5, <2>2, <2>4 DEF KeyInv, JoinRejectsInv
    <3>2. m \in 2..query.size /\ m \in Nat /\ m <= at  BY <1>1, <1>2, <2>4
    <3>3. c[1] \in 1..m  BY <1>2, <2>2, <3>2, ClauseFacts
    <3>4. c[1] \in 1..(i - 1) /\ i \in Nat  BY <1>1, <3>2, <3>3
    <3>5. Cell(j, c) = Cell(k, c)  BY <2>1, <3>4, ExtendedRow
    <3> QED BY <2>0, <3>1, <3>5
  <2> QED BY <1>1, <1>3, <2>3, <2>4
<1>9. WhereInv'
  <2>1. ~filtered
    <3>1. at # query.size  BY <1>1, <1>2
    <3> QED BY <3>1 DEF KeyInv, WhereInv
  <2> QED BY <1>1, <2>1 DEF WhereInv
<1> QED BY <1>7, <1>8, <1>9

(* Which query runs does not change, nor what the detector knows of it.    *)
LEMMA QueryStays == UNCHANGED query => (MergesKnown' <=> MergesKnown)
BY DEF MergesKnown, Shared, Bearers, Meta

LEMMA JoinKeeps == KeyInv /\ JoinNext => KeyInv'
<1> SUFFICES ASSUME KeyInv, JoinNext PROVE KeyInv'  OBVIOUS
<1>1. MergesKnown' => MergesKnown  BY QueryStays DEF JoinNext
<1> QED BY <1>1, JoinType, JoinClasses, JoinGrain, JoinNulls DEF KeyInv

(* WHERE drops rows: what holds of all rows goes on holding, and its own   *)
(* equalities and rejections come to it.                                   *)
LEMMA FilterKeeps == KeyInv /\ Filter => KeyInv'
<1> SUFFICES ASSUME KeyInv, Filter PROVE KeyInv'  OBVIOUS
<1>1. /\ at = query.size /\ filtered' = TRUE
      /\ todo' = todo \cup Readable(query.where.equal)
      /\ UNCHANGED <<query, db, at, equated, grain>>
      /\ \A j \in rows' : j \in rows /\ Passes(j, query.where.equal, query.where.rejects)
  BY DEF Filter, Chosen
<1>2. TypeOK  BY DEF KeyInv
<1>3. \A e \in Readable(query.where.equal) :
        /\ e \in Col \X Col /\ Joinedc(e[1]) /\ Joinedc(e[2])
        /\ \A j \in rows' : Agree(j, e[1], e[2])
  BY <1>1, <1>2, ClauseFacts DEF Readable, Compatible, Passes, Joinedc
<1>4. ASSUME NEW c, NEW d, NEW j
      PROVE  (Agree(j, c, d)' <=> Agree(j, c, d)) /\ Cell(j, c)' = Cell(j, c)
  BY <1>1 DEF Agree, Key, Cell, Signature, Meta
<1>5. ASSUME NEW c PROVE Joinedc(c)' <=> Joinedc(c)  BY <1>1 DEF Joinedc
<1>6. ASSUME NEW m PROVE NullExtends(m)' <=> NullExtends(m)  BY <1>1 DEF NullExtends
<1>7. TypeOK'
  BY <1>1, <1>2, <1>3 DEF TypeOK
<1>8. ASSUME MergesKnown PROVE ClassesAgree'
  <2> SUFFICES ASSUME NEW c \in Col
               PROVE c \in equated'[c] /\ \A d \in equated'[c] :
                       d = c \/ (Joinedc(c)' /\ Joinedc(d)' /\ \A j \in rows' : Agree(j, c, d)')
    BY DEF ClassesAgree
  <2>1. c \in equated[c] /\ \A d \in equated[c] :
          d = c \/ (Joinedc(c) /\ Joinedc(d) /\ \A j \in rows : Agree(j, c, d))
    BY <1>8 DEF KeyInv, ClassesAgree
  <2> QED BY <1>1, <1>4, <1>5, <2>1
<1>9. ASSUME MergesKnown PROVE TodoAgrees'
  <2> SUFFICES ASSUME NEW e \in todo'
               PROVE Joinedc(e[1])' /\ Joinedc(e[2])' /\ \A j \in rows' : Agree(j, e[1], e[2])'
    BY DEF TodoAgrees
  <2>1. Joinedc(e[1]) /\ Joinedc(e[2]) /\ \A j \in rows' : Agree(j, e[1], e[2])
    BY <1>1, <1>3, <1>9 DEF KeyInv, TodoAgrees
  <2> QED BY <1>4, <1>5, <2>1
<1>10. ASSUME MergesKnown PROVE GrainInv'
  BY <1>1, <1>10 DEF KeyInv, GrainInv
<1>11. PaddingInv'
  BY <1>1, <1>6 DEF KeyInv, PaddingInv
<1>12. JoinRejectsInv'
  BY <1>1, <1>4, <1>6 DEF KeyInv, JoinRejectsInv
<1>13. WhereInv'
  <2> SUFFICES at' = query'.size /\ \A c \in query'.where.rejects : \A j \in rows' : Cell(j, c)' # None
    BY DEF WhereInv
  <2> QED BY <1>1, <1>4 DEF Passes
<1>14. MergesKnown' => MergesKnown  BY <1>1, QueryStays
<1> QED BY <1>7, <1>8, <1>9, <1>10, <1>11, <1>12, <1>13, <1>14 DEF KeyInv

(* Uniting two classes over an equality that holds in every row.           *)
LEMMA UniteKeeps == KeyInv /\ Unite => KeyInv'
<1> SUFFICES ASSUME KeyInv, Unite PROVE KeyInv'  OBVIOUS
<1>1. PICK e \in todo : /\ equated' = United(e[1], e[2]) /\ todo' = todo \ {e}
                        /\ UNCHANGED <<query, db, at, rows, filtered, grain>>
  BY DEF Unite
<1>2. TypeOK /\ e[1] \in Col /\ e[2] \in Col  BY DEF KeyInv, TypeOK
<1>3. MergesKnown => Joinedc(e[1]) /\ Joinedc(e[2]) /\ \A j \in rows : Agree(j, e[1], e[2])
  BY DEF KeyInv, TodoAgrees
<1>4. \A c \in Col : equated[c] \subseteq Col
  BY <1>2 DEF TypeOK
<1>5. equated' \in [Col -> SUBSET Col]
  BY <1>1, <1>2, <1>4 DEF United
<1>6. ASSUME NEW c, NEW d, NEW j
      PROVE  (Agree(j, c, d)' <=> Agree(j, c, d)) /\ Cell(j, c)' = Cell(j, c)
  BY <1>1 DEF Agree, Key, Cell, Signature, Meta
<1>7. ASSUME NEW c PROVE Joinedc(c)' <=> Joinedc(c)  BY <1>1 DEF Joinedc
<1>8. ASSUME NEW m PROVE NullExtends(m)' <=> NullExtends(m)  BY <1>1 DEF NullExtends
<1>9. TypeOK'
  BY <1>1, <1>2, <1>5 DEF TypeOK
<1>10. ASSUME MergesKnown PROVE ClassesAgree'
  <2> SUFFICES ASSUME NEW c \in Col
               PROVE c \in equated'[c] /\ \A d \in equated'[c] :
                       d = c \/ (Joinedc(c) /\ Joinedc(d) /\ \A j \in rows : Agree(j, c, d))
    BY <1>1, <1>6, <1>7 DEF ClassesAgree
  <2>1. \A x \in Col : \A y \in equated[x] :
          y = x \/ (Joinedc(x) /\ Joinedc(y) /\ \A j \in rows : Agree(j, x, y))
    BY <1>10 DEF KeyInv, ClassesAgree
  <2>0. \A x \in Col : x \in equated[x]
    BY <1>10 DEF KeyInv, ClassesAgree
  <2> DEFINE U == equated[e[1]] \cup equated[e[2]]
  <2>2. equated'[c] = IF c \in U THEN U ELSE equated[c]
    BY <1>1 DEF United
  <2>3. \A y \in U : Joinedc(y) /\ \A j \in rows : Key(j, y) = Key(j, e[1])
    BY <1>2, <1>3, <1>10, <2>1 DEF Agree
  <2>4. CASE c \in U
    <3>1. equated'[c] = U  BY <2>2, <2>4
    <3> HIDE DEF U
    <3> QED BY <2>3, <2>4, <3>1 DEF Agree
  <2>5. CASE c \notin U
    BY <2>0, <2>1, <2>2, <2>5
  <2> QED BY <2>4, <2>5
<1>11. ASSUME MergesKnown PROVE TodoAgrees'
  <2> SUFFICES ASSUME NEW f \in todo'
               PROVE Joinedc(f[1])' /\ Joinedc(f[2])' /\ \A j \in rows' : Agree(j, f[1], f[2])'
    BY DEF TodoAgrees
  <2>1. Joinedc(f[1]) /\ Joinedc(f[2]) /\ \A j \in rows : Agree(j, f[1], f[2])
    BY <1>1, <1>11 DEF KeyInv, TodoAgrees
  <2> QED BY <1>1, <1>6, <1>7, <2>1
<1>12. (MergesKnown => GrainInv') /\ PaddingInv'
  BY <1>1, <1>8 DEF KeyInv, GrainInv, PaddingInv
<1>13. JoinRejectsInv'
  BY <1>1, <1>6, <1>8 DEF KeyInv, JoinRejectsInv
<1>14. WhereInv'
  BY <1>1, <1>6 DEF KeyInv, WhereInv
<1>15. MergesKnown' => MergesKnown  BY <1>1, QueryStays
<1> QED BY <1>14, <1>15, <1>9, <1>10, <1>11, <1>12, <1>13 DEF KeyInv

LEMMA InitKeys == Init => KeyInv
<1> SUFFICES ASSUME Init PROVE KeyInv  OBVIOUS
<1>1. /\ query \in Queries /\ db \in Databases /\ at = 1 /\ filtered = FALSE /\ todo = {}
      /\ rows = {[s \in 1..1 |-> r] : r \in DOMAIN db[query.from[1]]}
      /\ equated = [c \in Col |-> {c}] /\ grain = TRUE
  BY DEF Init
<1>2. query \in Select  BY <1>1
<1>3. query.size \in Nat /\ query.size >= 1 /\ 1 \in Sources /\ query.from[1] \in Tables
  BY <1>2 DEF Select, Sources
<1>4. \A r \in DOMAIN db[query.from[1]] : r \in Nat /\ r # 0
  BY <1>1, <1>3
<1>5. \A s \in 1..1 : s = 1  OBVIOUS
<1>6. \A j \in rows : /\ j \in [1..1 -> Nat] /\ j[1] # 0 /\ j[1] \in DOMAIN db[query.from[1]]
                      /\ j = [s \in 1..1 |-> j[1]]
  BY <1>1, <1>4
<1>7. TypeOK
  <2>1. at \in 1..query.size  BY <1>1, <1>3
  <2>2. rows \subseteq [1..at -> Nat]  BY <1>1, <1>6
  <2>3. \A j \in rows : \A s \in 1..at : j[s] = 0 \/ j[s] \in DOMAIN db[query.from[s]]
    BY <1>1, <1>5, <1>6
  <2> QED BY <1>1, <2>1, <2>2, <2>3 DEF TypeOK
<1>8. ClassesAgree /\ TodoAgrees  BY <1>1 DEF ClassesAgree, TodoAgrees
<1>9. GrainInv
  <2>1. \A j, k \in rows : j[1] = k[1] => j = k  BY <1>6
  <2>2. \A i \in 2..at : FALSE  BY <1>1
  <2> QED BY <1>6, <2>1, <2>2 DEF GrainInv
<1>10. PaddingInv  BY <1>1, <1>5, <1>6 DEF PaddingInv
<1>11. JoinRejectsInv
  <2>1. \A i \in 2..at : FALSE  BY <1>1
  <2> QED BY <2>1 DEF JoinRejectsInv
<1>12. WhereInv  BY <1>1 DEF WhereInv
<1> QED BY <1>7, <1>8, <1>9, <1>10, <1>11, <1>12 DEF KeyInv

LEMMA NextKeys == KeyInv /\ [Next]_vars => KeyInv'
<1>1. KeyInv /\ UNCHANGED vars => KeyInv'
  <2> SUFFICES ASSUME KeyInv, UNCHANGED vars PROVE KeyInv'  OBVIOUS
  <2>1. UNCHANGED <<query, db, at, rows, filtered, todo, equated, grain>>  BY DEF vars
  <2>2. ASSUME NEW c, NEW d, NEW j
        PROVE  (Agree(j, c, d)' <=> Agree(j, c, d)) /\ Cell(j, c)' = Cell(j, c)
    BY <2>1 DEF Agree, Key, Cell, Signature, Meta
  <2>3. ASSUME NEW c PROVE Joinedc(c)' <=> Joinedc(c)  BY <2>1 DEF Joinedc
  <2>4. ASSUME NEW m PROVE NullExtends(m)' <=> NullExtends(m)  BY <2>1 DEF NullExtends
  <2>5. TypeOK'  BY <2>1 DEF KeyInv, TypeOK
  <2>12. MergesKnown' => MergesKnown  BY <2>1, QueryStays
  <2>6. MergesKnown => ClassesAgree'  BY <2>1, <2>2, <2>3 DEF KeyInv, ClassesAgree
  <2>7. MergesKnown => TodoAgrees'  BY <2>1, <2>2, <2>3 DEF KeyInv, TodoAgrees
  <2>8. MergesKnown => GrainInv'  BY <2>1 DEF KeyInv, GrainInv
  <2>9. PaddingInv'
    <3>1. at' = at /\ rows' = rows  BY <2>1
    <3>2. (\A m \in 2..at : ~NullExtends(m)') => \A j \in rows : \A s \in 1..at : j[s] # 0
      BY <2>4 DEF KeyInv, PaddingInv
    <3> SUFFICES ASSUME \A m \in 2..at' : ~NullExtends(m)', NEW j \in rows', NEW s \in 1..at'
                 PROVE  j[s] # 0
      BY DEF PaddingInv
    <3> QED BY Zenon, <3>1, <3>2
  <2>10. JoinRejectsInv'
    <3>1. at' = at /\ rows' = rows /\ query' = query  BY <2>1
    <3>2. (\A m \in 2..at : ~NullExtends(m)') => \A i \in 2..at : query.join[i].form = "on" =>
            \A c \in query.join[i].on.rejects : \A j \in rows : Cell(j, c)' # None
      <4>1. JoinRejectsInv  BY DEF KeyInv
      <4> QED BY <2>2, <2>4, <4>1 DEF JoinRejectsInv
    <3> SUFFICES ASSUME \A m \in 2..at' : ~NullExtends(m)',
                        NEW m \in 2..at', query'.join[m].form = "on",
                        NEW c \in query'.join[m].on.rejects, NEW j \in rows'
                 PROVE  Cell(j, c)' # None
      BY DEF JoinRejectsInv
    <3> QED BY Zenon, <3>1, <3>2
  <2>11. WhereInv'
    <3>1. at' = at /\ rows' = rows /\ query' = query /\ filtered' = filtered  BY <2>1
    <3>2. filtered => at = query.size
      BY Zenon DEF KeyInv, WhereInv
    <3>3. filtered => \A c \in query.where.rejects : \A j \in rows : Cell(j, c) # None
      BY Zenon DEF KeyInv, WhereInv
    <3>4. filtered => \A c \in query.where.rejects : \A j \in rows : Cell(j, c)' # None
      BY Zenon, <2>2, <3>3
    <3> SUFFICES ASSUME filtered'
                 PROVE  /\ at' = query'.size
                        /\ \A c \in query'.where.rejects : \A j \in rows' : Cell(j, c)' # None
      BY Zenon DEF WhereInv
    <3> QED BY Zenon, <3>1, <3>2, <3>4
  <2> QED BY <2>5, <2>6, <2>7, <2>8, <2>9, <2>10, <2>11, <2>12 DEF KeyInv
<1> QED BY <1>1, JoinKeeps, FilterKeeps, UniteKeeps DEF Next

LEMMA KeyInvHolds == Spec => []KeyInv
BY InitKeys, NextKeys, PTL DEF Spec

---------------------------------------------------------------------------
(* At the end of the walk all sources are joined.                          *)
LEMMA AtEnd ==
  ASSUME KeyInv, Done
  PROVE  /\ at = query.size /\ at \in Nat /\ at >= 1 /\ TypeOK
         /\ \A c \in query.group \cup query.having \cup query.columns : c \in Col /\ c[1] \in 1..at
         /\ query.stars \subseteq 1..at
<1>1. at = query.size /\ TypeOK  BY DEF KeyInv, Done, WhereInv
<1>2. WellFormed(query) /\ query \in Select /\ query.size \in Nat /\ query.size >= 1
  BY <1>1, QueryFacts
<1>3. query.group \cup query.having \cup query.columns \subseteq Col  BY <1>2 DEF Select
<1> QED BY <1>1, <1>2, <1>3 DEF WellFormed, InQuery

LEMMA ClassAgreement ==
  ASSUME KeyInv, MergesKnown, NEW c \in Col, NEW d \in equated[c], NEW j \in rows
  PROVE  Key(j, c) = Key(j, d) /\ d \in Col
<1>1. equated[c] \subseteq Col  BY DEF KeyInv, TypeOK
<1> QED BY <1>1 DEF KeyInv, ClassesAgree, Agree

(* The rows of a group share the row of every source whose key is grouped. *)
LEMMA GroupedSource ==
  ASSUME KeyInv, Done, MergesKnown, NEW s \in 1..at, KeyGrouped(s),
         NEW j \in rows, NEW k \in rows, SameGroup(j, k)
  PROVE  j[s] = k[s]
<1>1. TypeOK /\ s \in 1..query.size  BY AtEnd
<1>2. Meta(s) \in Entry /\ s \in Sources  BY <1>1, QueryFacts
<1>3. Meta(s).key # {} /\ \A n \in Meta(s).key : n \in Names
  BY <1>2 DEF KeyGrouped, Entry
<1>4. ASSUME NEW n \in Meta(s).key PROVE SameOn(j, k, <<s, n>>)
  <2>1. PICK g \in query.group : g \in equated[<<s, n>>]  BY DEF KeyGrouped
  <2>2. <<s, n>> \in Col  BY <1>2, <1>3 DEF Col
  <2>3. Key(j, <<s, n>>) = Key(j, g)  BY <2>1, <2>2, ClassAgreement
  <2>4. Key(k, <<s, n>>) = Key(k, g)  BY <2>1, <2>2, ClassAgreement
  <2>5. Key(j, g) = Key(k, g)  BY DEF SameGroup, SameOn
  <2> QED BY <2>3, <2>4, <2>5 DEF SameOn
<1> QED BY <1>1, <1>3, <1>4, SameKeySameRow

LEMMA SameRowSameCells ==
  ASSUME NEW j, NEW k, NEW c, j[c[1]] = k[c[1]]
  PROVE  SameOn(j, k, c)
BY DEF SameOn, Key, Cell

(* The variables of the walk keep to their type, whatever SELECT runs.     *)
THEOREM KeyTypeCorrect == Spec => []TypeOK
<1>1. KeyInv => TypeOK  BY DEF KeyInv
<1> QED BY <1>1, KeyInvHolds, PTL

(* The columns of a class have the same value in every row of the result,  *)
(* for any joins, outer ones included: _equated_columns.                   *)
THEOREM EquatedTheorem == Spec => []EquatedAgree
<1>1. KeyInv => EquatedAgree
  <2> SUFFICES ASSUME KeyInv, Done, MergesKnown,
                      NEW c \in Col, NEW d \in equated[c], NEW j \in rows
               PROVE  Agree(j, c, d)
    BY DEF EquatedAgree
  <2> QED BY ClassAgreement DEF Agree
<1> QED BY <1>1, KeyInvHolds, PTL

(* A GROUP BY query that _detect_missing_group_by lets pass returns one    *)
(* value per group for all it projects.                                    *)
THEOREM GroupTheorem == Spec => []GroupsAreDetermined
<1>1. KeyInv => GroupsAreDetermined
  <2> SUFFICES ASSUME KeyInv, Done, MergesKnown, ~MissingGroupBy,
                      NEW j \in rows, NEW k \in rows, SameGroup(j, k)
               PROVE  /\ \A c \in query.columns : SameOn(j, k, c)
                      /\ \A s \in query.stars : j[s] = k[s]
                      /\ query.all => j = k
    BY DEF GroupsAreDetermined
  <2>1. ASSUME NEW c \in query.columns PROVE SameOn(j, k, c)
    <3>1. CASE c \in query.group  BY <3>1 DEF SameGroup
    <3>2. CASE c \notin query.group
      <4>1. KeyGrouped(c[1])  BY <3>2 DEF MissingGroupBy
      <4>2. c[1] \in 1..at  BY AtEnd
      <4>3. j[c[1]] = k[c[1]]  BY <4>1, <4>2, GroupedSource
      <4> QED BY <4>3, SameRowSameCells
    <3> QED BY <3>1, <3>2
  <2>3. ASSUME NEW s \in query.stars PROVE j[s] = k[s]
    <3>1. KeyGrouped(s) /\ s \in 1..at  BY AtEnd DEF MissingGroupBy
    <3> QED BY <3>1, GroupedSource
  <2>2. ASSUME query.all PROVE j = k
    <3>1. \A s \in 1..at : KeyGrouped(s)
      BY <2>2, AtEnd DEF MissingGroupBy
    <3>2. \A s \in 1..at : j[s] = k[s]  BY <3>1, GroupedSource
    <3>3. j \in [1..at -> Nat] /\ k \in [1..at -> Nat]  BY AtEnd DEF TypeOK
    <3>4. j = [s \in 1..at |-> j[s]] /\ k = [s \in 1..at |-> k[s]]  BY <3>3
    <3>5. [s \in 1..at |-> j[s]] = [s \in 1..at |-> k[s]]  BY <3>2
    <3> QED BY Zenon, <3>4, <3>5
  <2> QED BY <2>1, <2>2, <2>3
<1> QED BY <1>1, KeyInvHolds, PTL

(* A DISTINCT that _detect_redundant_distinct reports removes no row, over *)
(* a projected GROUP BY key or over a projected primary key.               *)
THEOREM DistinctTheorem == Spec => []DistinctRemovesNothing
<1>1. KeyInv => DistinctRemovesNothing
  <2> SUFFICES ASSUME KeyInv, Done, MergesKnown, RedundantDistinct,
                      NEW j \in rows, NEW k \in rows, SameProjection(j, k)
               PROVE  IF query.grouped THEN SameGroup(j, k) ELSE j = k
    BY DEF DistinctRemovesNothing
  <2>1. CASE query.grouped
    <3> SUFFICES ASSUME NEW c \in query.group PROVE SameOn(j, k, c)
      BY <2>1 DEF SameGroup
    <3>0. c \in Col /\ c[1] \in 1..at /\ at = query.size /\ at \in Nat  BY AtEnd
    <3>1. equated[c] \cap query.columns # {} \/ StarCovers(c)
      BY <2>1 DEF RedundantDistinct, GroupKeyProjected
    <3>2. CASE equated[c] \cap query.columns # {}
      <4>1. PICK d \in query.columns : d \in equated[c]  BY <3>2
      <4>2. d \in Col /\ Shown(d)  BY AtEnd DEF Shown
      <4>3. Key(j, d) = Key(k, d)  BY <4>2 DEF SameProjection, SameOn
      <4>4. Key(j, c) = Key(j, d)  BY <3>0, <4>1, ClassAgreement
      <4>5. Key(k, c) = Key(k, d)  BY <3>0, <4>1, ClassAgreement
      <4> QED BY <4>3, <4>4, <4>5 DEF SameOn
    <3>3. CASE StarCovers(c)
      <4>1. CASE c[1] \in query.stars
        BY <3>0, <3>3, <4>1 DEF StarCovers, Shown, SameProjection
      <4>2. CASE query.all /\ ~MergesColumns
        <5>1. \A i \in 2..query.size : query.join[i].form = "on"
          BY <4>2 DEF MergesColumns
        <5>2. c[1] > 1 => c[1] \in 2..query.size  BY <3>0
        <5>3. \A i \in (c[1] + 1)..query.size : i \in 2..query.size  BY <3>0
        <5>4. StarShows(c)  BY <3>3, <5>1, <5>2, <5>3 DEF StarShows, StarCovers
        <5> QED BY <3>0, <4>2, <5>4 DEF Shown, SameProjection
      <4> QED BY <3>3, <4>1, <4>2 DEF StarCovers
    <3> QED BY <3>1, <3>2, <3>3
  <2>2. CASE ~query.grouped
    <3>0. /\ at = query.size /\ at \in Nat /\ at >= 1 /\ TypeOK /\ 1 \in 1..at
          /\ query.stars \subseteq 1..at
      BY AtEnd
    <3>1. Meta(1).key # {} /\ grain /\ ProjectionPinsKey
      BY <2>2 DEF RedundantDistinct
    <3>2. /\ \A i \in 2..at : query.join[i].kind \in {"inner", "left"}
          /\ \A l, m \in rows : l[1] = m[1] => l = m
      BY <3>1 DEF KeyInv, GrainInv
    <3>3. Meta(1) \in Entry /\ 1 \in Sources  BY <3>0, QueryFacts
    <3>4. ASSUME NEW n \in Meta(1).key PROVE SameOn(j, k, <<1, n>>)
      <4>1. <<1, n>> \in Col  BY <3>3 DEF Entry, Col
      <4>2. CASE equated[<<1, n>>] \cap query.columns # {}
        <5>1. PICK d \in query.columns : d \in equated[<<1, n>>]  BY <4>2
        <5>2. d \in Col /\ Shown(d)  BY AtEnd DEF Shown
        <5>3. Key(j, d) = Key(k, d)  BY <5>2 DEF SameProjection, SameOn
        <5>4. Key(j, <<1, n>>) = Key(j, d)  BY <4>1, <5>1, ClassAgreement
        <5>5. Key(k, <<1, n>>) = Key(k, d)  BY <4>1, <5>1, ClassAgreement
        <5> QED BY <5>3, <5>4, <5>5 DEF SameOn
      <4>3. CASE (query.all \/ 1 \in query.stars) /\ n \in Meta(1).star
        <5>1. \A i \in (1 + 1)..query.size : query.join[i].kind \notin {"right", "full"}
          BY <3>0, <3>2
        <5>2. StarShows(<<1, n>>)  BY <4>3, <5>1 DEF StarShows
        <5>3. Shown(<<1, n>>)  BY <3>0, <4>3, <5>2 DEF Shown
        <5> QED BY <4>1, <5>3 DEF SameProjection
      <4> QED BY <3>1, <4>2, <4>3 DEF ProjectionPinsKey
    <3>5. j[1] = k[1]  BY <3>0, <3>1, <3>4, SameKeySameRow
    <3> QED BY <2>2, <3>2, <3>5
  <2> QED BY <2>1, <2>2
<1> QED BY <1>1, KeyInvHolds, PTL

(* A column that _select_output_nullability calls NON_NULL holds no NULL   *)
(* in any row that HAVING lets stand, the row an aggregate makes of        *)
(* nothing included if HAVING speaks of the column.                        *)
THEOREM NonNullTheorem == Spec => []NonNullSound
<1>1. KeyInv => NonNullSound
  <2> SUFFICES ASSUME KeyInv, Done, NEW c \in query.columns, NonNull(c),
                      NEW j \in Standing, j # Nothing \/ c \in query.having
               PROVE  Cell(j, c) # None
    BY DEF NonNullSound
  <2>1. /\ at = query.size /\ TypeOK /\ c \in Col /\ c[1] \in 1..at
    BY AtEnd
  <2>2. \A i \in 2..at : ~NullExtends(i)  BY <2>1 DEF NonNull
  <2>3. CASE c \in query.having
    BY <2>3 DEF Standing, Passes
  <2>4. CASE c \notin query.having
    <3>1. j \in rows  BY <2>4 DEF Standing
    <3>2. CASE c \in query.where.rejects
      BY <3>1, <3>2 DEF KeyInv, WhereInv, Done
    <3>3. CASE \E i \in 2..at : query.join[i].form = "on" /\ c \in query.join[i].on.rejects
      BY <2>2, <3>1, <3>3 DEF KeyInv, JoinRejectsInv
    <3>4. CASE c[2] \in Meta(c[1]).notnull
      <4>1. j[c[1]] # 0  BY <2>1, <2>2, <3>1 DEF KeyInv, PaddingInv
      <4>2. j[c[1]] \in DOMAIN db[query.from[c[1]]]  BY <2>1, <3>1, <4>1 DEF TypeOK
      <4>3. db[query.from[c[1]]][j[c[1]]][c[2]] # None
        BY <2>1, <3>4, <4>2, KeyNotNull
      <4> QED BY <4>1, <4>3 DEF Cell
    <3> QED BY <2>1, <2>4, <3>2, <3>3, <3>4 DEF NonNull, RejectedNulls
  <2> QED BY <2>3, <2>4
<1> QED BY <1>1, KeyInvHolds, PTL

---------------------------------------------------------------------------
(* The rule.                                                               *)
HIDE KeyAssumption DEF KeyAssumption

---------------------------------------------------------------------------
(* Every step of the rule is a step of the walk, or leaves it alone.       *)
LEMMA StepRefines == [ProductNext]_allVars => [Next]_vars
BY DEF ProductNext, allVars, CountedJoin, CountedFilter, CountedUnite, Next

(* The rule implements KeyReasoning, so that its theorems hold of it.      *)
THEOREM RefinesWalk == ProductSpec => Spec
<1>1. ProductInit => Init  BY DEF ProductInit
<1> QED BY <1>1, StepRefines, PTL DEF ProductSpec, Spec

LEMMA WalkInv == ProductSpec => []KeyInv
BY RefinesWalk, KeyInvHolds, PTL

---------------------------------------------------------------------------
(* A query that _is_provably_scalar_query accepts returns one row at most. *)
LEMMA ScalarShape ==
  ASSUME NEW shape \in Shape, NEW n \in Nat, MayReturn(shape, n), ProvablyScalar(shape)
  PROVE  n <= 1
<1>1. PICK read \in 0..Many, made \in 0..Many :
        /\ ~shape.from => read <= 1
        /\ ~shape.union /\ ~shape.expands =>
             IF shape.aggregate /\ ~shape.grouped THEN made <= 1 ELSE made <= read
        /\ n <= made /\ Cut(shape.limit, n)
  BY DEF MayReturn
<1>2. shape.limit.kind \in {"none", "number", "percent", "ties", "by", "computed"} /\ shape.limit.n \in Nat
  BY DEF Shape, Limit
<1>3. CASE LimitProves(shape.limit)
  BY <1>1, <1>2, <1>3 DEF LimitProves, Cut
<1>4. CASE ~shape.union /\ ~shape.expands /\ (~shape.from \/ (~shape.grouped /\ shape.aggregate))
  BY <1>1, <1>4
<1> QED BY <1>3, <1>4 DEF ProvablyScalar

(* The SELECT, its words and the contents belong together.                 *)
Chosen_ == \E x \in Selects : query = x.select /\ words = x.words /\ db \in x.contents

LEMMA ScalarUnique ==
  ASSUME TypeOK, Chosen_, NEW s \in 1..query.size, Scalar(s),
         NEW r1 \in DOMAIN db[query.from[s]], NEW r2 \in DOMAIN db[query.from[s]]
  PROVE  r1 = r2
<1>1. PICK x \in Selects : query = x.select /\ words = x.words /\ db \in x.contents
  BY DEF Chosen_
<1>2. Catalog[query.from[s]].derived /\ ProvablyScalar(words.shape[s])
  BY DEF Scalar, Meta
<1>3. PICK n \in 0..Many : MayReturn(words.shape[s], n) /\ DOMAIN db[query.from[s]] = 1..n
  BY <1>1, <1>2, ProductAssumption DEF ProductAssumption
<1>4. words.shape[s] \in Shape
  <2>1. s \in Sources  BY QueryFacts
  <2>2. words \in Words  BY <1>1, ProductAssumption DEF ProductAssumption
  <2> QED BY <2>1, <2>2 DEF Words
<1>5. n <= 1  BY <1>2, <1>3, <1>4, ScalarShape
<1> QED BY <1>3, <1>5

---------------------------------------------------------------------------
(* The sources that do not count, at every step.                           *)
Counts(s) == ~Scalar(s) /\ s \notin irrelevant

UncountedInv ==
  /\ active \subseteq 1..at /\ irrelevant \subseteq 1..at
  /\ empty => rows = {}
  /\ \A s \in irrelevant : \A j \in rows : j[s] = 0
  /\ (\A i \in 2..at : query.join[i].kind = "full" => ~Scalar(i)) =>
       \A j, k \in rows : (\A s \in 1..at : Counts(s) => j[s] = k[s]) => j = k

(* A join of the rule takes its matches from the candidates, none if it is *)
(* ON FALSE.                                                               *)
LEMMA CountedStep ==
  ASSUME KeyInv, CountedJoin
  PROVE  \E matched \in SUBSET Candidates(at + 1) :
           /\ rows' = matched \cup PaddedRight(at + 1, matched) \cup PaddedLeft(at + 1, matched)
           /\ at + 1 \in words.never => matched = {}
<1>1. JoinNext  BY DEF CountedJoin
<1>2. CASE Told(at + 1)
  <2>1. rows' = Matched(at + 1) \cup PaddedRight(at + 1, Matched(at + 1))
                  \cup PaddedLeft(at + 1, Matched(at + 1))
    BY <1>2 DEF CountedJoin
  <2> QED BY <2>1 DEF Matched
<1>3. CASE ~Told(at + 1)
  <2>1. at + 1 \notin words.never  BY <1>3 DEF Told, ToldOf
  <2> QED BY <1>1, <2>1, JoinStep
<1> QED BY <1>2, <1>3

LEMMA RowNumbers ==
  ASSUME TypeOK, NEW s \in 1..query.size, NEW r \in DOMAIN db[query.from[s]]
  PROVE  r \in Nat /\ r # 0
<1>1. query.from[s] \in Tables /\ db \in Databases  BY QueryFacts DEF TypeOK
<1>2. DOMAIN db[query.from[s]] \subseteq Nat \ {0}  BY <1>1, KeyAssumption DEF KeyAssumption
<1> QED BY <1>2

(* Two rows of a join are the same one if they agree, in what counts, on   *)
(* the left hand side and on the source that joins.                        *)
LEMMA RowsApart ==
  ASSUME TypeOK, Chosen_, NEW i \in 2..query.size, i = at + 1,
         NEW matched \in SUBSET Candidates(i),
         query.join[i].kind = "full" => ~Scalar(i),
         NEW old \in SUBSET (1..at),
         \A a, b \in rows : (\A s \in old : a[s] = b[s]) => a = b,
         NEW j \in matched \cup PaddedRight(i, matched) \cup PaddedLeft(i, matched),
         NEW k \in matched \cup PaddedRight(i, matched) \cup PaddedLeft(i, matched),
         j[i] = k[i] \/ Scalar(i) \/ (query.join[i].kind = "left" /\ matched = {}),
         (\A s \in old : j[s] = k[s]) \/ (matched = {} /\ PaddedRight(i, matched) = {})
  PROVE  j = k
<1> DEFINE D == DOMAIN db[query.from[i]]
           IsMatch(l, a, r) == l = Extend(a, i, r) /\ l \in matched
           IsRight(l, a) == /\ l = Extend(a, i, 0) /\ query.join[i].kind \in {"left", "full"}
                            /\ \A r \in D : Extend(a, i, r) \notin matched
           IsLeft(l, r) == /\ l = Pad(i, r) /\ query.join[i].kind \in {"right", "full"}
                           /\ \A a \in rows : Extend(a, i, r) \notin matched
<1>0. /\ i \in Nat /\ at \in Nat /\ i \in 1..i /\ \A s \in 1..at : s \in 1..i /\ s # i
      /\ i \in 1..query.size
  BY QueryFacts DEF TypeOK
<1>1. \A r \in D : r # 0  BY <1>0, RowNumbers
<1>2. \A a : \A r : /\ Extend(a, i, r)[i] = r /\ Pad(i, r)[i] = r
                    /\ \A s \in old : Extend(a, i, r)[s] = a[s]
  BY <1>0 DEF Extend, Pad
<1>3. \A r1, r2 \in D : Scalar(i) => r1 = r2
  BY <1>0, ScalarUnique
<1>4. \A l \in matched \cup PaddedRight(i, matched) \cup PaddedLeft(i, matched) :
        \/ \E a \in rows, r \in D : IsMatch(l, a, r)
        \/ \E a \in rows : IsRight(l, a)
        \/ \E r \in D : IsLeft(l, r)
  BY DEF Candidates, PaddedRight, PaddedLeft
<1>5. ASSUME matched = {}, PaddedRight(i, matched) = {} PROVE \E r \in D : IsLeft(j, r)
  BY <1>5 DEF PaddedLeft
<1>6. ASSUME matched = {}, PaddedRight(i, matched) = {} PROVE \E r \in D : IsLeft(k, r)
  BY <1>6 DEF PaddedLeft
<1>7. ASSUME NEW r1 \in D, NEW r2 \in D, IsLeft(j, r1), IsLeft(k, r2) PROVE j = k
  <2>1. r1 = r2  BY <1>2, <1>3, <1>7
  <2> QED BY <1>7, <2>1
<1>8. CASE matched = {} /\ PaddedRight(i, matched) = {}
  BY <1>5, <1>6, <1>7, <1>8
<1>9. CASE \A s \in old : j[s] = k[s]
  <2>1. \A a, b \in rows : \A r1, r2 : j = Extend(a, i, r1) /\ k = Extend(b, i, r2) => a = b
    BY <1>2, <1>9
  <2>2. ASSUME NEW a \in rows, NEW b \in rows, NEW r1 \in D, NEW r2 \in D,
               IsMatch(j, a, r1), IsMatch(k, b, r2)
        PROVE  j = k
    <3>1. a = b /\ r1 = r2  BY <1>2, <1>3, <2>1, <2>2
    <3> QED BY <2>2, <3>1
  <2>3. ASSUME NEW a \in rows, NEW b \in rows, IsRight(j, a), IsRight(k, b) PROVE j = k
    <3>1. a = b  BY <2>1, <2>3
    <3> QED BY <2>3, <3>1
  <2>4. ASSUME NEW a \in rows, NEW b \in rows, NEW r \in D, IsMatch(j, a, r), IsRight(k, b)
        PROVE  FALSE
    <3>1. a = b  BY <2>1, <2>4
    <3> QED BY <2>4, <3>1
  <2>5. ASSUME NEW a \in rows, NEW b \in rows, NEW r \in D, IsMatch(k, a, r), IsRight(j, b)
        PROVE  FALSE
    <3>1. a = b  BY <2>1, <2>5
    <3> QED BY <2>5, <3>1
  <2>6. ASSUME NEW a \in rows, NEW r1 \in D, NEW r2 \in D, IsMatch(j, a, r1), IsLeft(k, r2)
        PROVE  FALSE
    <3>1. r1 = r2  BY <1>2, <1>3, <2>6
    <3> QED BY <2>6, <3>1
  <2>7. ASSUME NEW a \in rows, NEW r1 \in D, NEW r2 \in D, IsMatch(k, a, r1), IsLeft(j, r2)
        PROVE  FALSE
    <3>1. r1 = r2  BY <1>2, <1>3, <2>7
    <3> QED BY <2>7, <3>1
  <2>8. ASSUME NEW a \in rows, NEW r \in D, IsRight(j, a), IsLeft(k, r) PROVE FALSE
    <3>1. j[i] # k[i]  BY <1>1, <1>2, <2>8
    <3> QED BY <2>8, <3>1
  <2>9. ASSUME NEW a \in rows, NEW r \in D, IsRight(k, a), IsLeft(j, r) PROVE FALSE
    <3>1. j[i] # k[i]  BY <1>1, <1>2, <2>9
    <3> QED BY <2>9, <3>1
  <2> HIDE DEF IsMatch, IsRight, IsLeft
  <2> QED BY <1>4, <1>7, <2>2, <2>3, <2>4, <2>5, <2>6, <2>7, <2>8, <2>9
<1> QED BY <1>8, <1>9

(* What a join changes of the sources that do not count: it counts all it  *)
(* did and perhaps the new one, or nothing of what it replaces.            *)
LEMMA CountStep ==
  ASSUME UncountedInv, NEW i, i = at + 1, Count(i)
  PROVE  \/ /\ irrelevant' \subseteq irrelevant \cup {i} /\ irrelevant \subseteq irrelevant'
            /\ active' \subseteq active \cup {i}
            /\ i \in irrelevant' \ irrelevant =>
                 i \in words.never /\ query.join[i].kind = "left"
            /\ empty' => empty \/ (i \in words.never /\ query.join[i].kind \in {"inner", "cross"})
         \/ /\ irrelevant' = irrelevant \cup active /\ active' = {i} /\ ~empty'
            /\ \/ empty
               \/ i \in words.never /\ query.join[i].kind = "right"
BY DEF Count

LEMMA JoinUncounted ==
  ASSUME KeyInv, Chosen_, UncountedInv, CountedJoin
  PROVE  UncountedInv'
<1> DEFINE i == at + 1
<1>0. TypeOK /\ JoinNext /\ Count(i) /\ UNCHANGED words
  BY DEF KeyInv, CountedJoin
<1>1. PICK matched \in SUBSET Candidates(i) :
        /\ rows' = matched \cup PaddedRight(i, matched) \cup PaddedLeft(i, matched)
        /\ i \in words.never => matched = {}
  BY CountedStep
<1>2. /\ i \in 2..query.size /\ at \in Nat /\ at >= 1 /\ at' = i /\ UNCHANGED <<query, db>>
      /\ i = at + 1 /\ i \in Nat /\ i \notin 1..at /\ i \in 1..i
      /\ \A s \in 1..at : s \in 1..i /\ s # i
  BY <1>0, JoinStep, QueryFacts
<1> HIDE DEF i
<1>3. ASSUME NEW s PROVE Scalar(s)' <=> Scalar(s)  BY <1>0, <1>2 DEF Scalar, Meta
<1>4. /\ active \subseteq 1..at /\ irrelevant \subseteq 1..at
      /\ empty => rows = {}
      /\ \A s \in irrelevant : \A j \in rows : j[s] = 0
  BY DEF UncountedInv
<1>5. \/ /\ irrelevant' \subseteq irrelevant \cup {i} /\ irrelevant \subseteq irrelevant'
         /\ active' \subseteq active \cup {i}
         /\ i \in irrelevant' \ irrelevant =>
              i \in words.never /\ query.join[i].kind = "left"
         /\ empty' => empty \/ (i \in words.never /\ query.join[i].kind \in {"inner", "cross"})
      \/ /\ irrelevant' = irrelevant \cup active /\ active' = {i} /\ ~empty'
         /\ \/ empty
            \/ i \in words.never /\ query.join[i].kind = "right"
  BY <1>0, <1>2, CountStep
<1>6. ASSUME NEW j \in rows'
      PROVE  \/ \E a \in rows : \E r : j = Extend(a, i, r) /\ \A s \in 1..at : j[s] = a[s]
             \/ \A s \in 1..at : j[s] = 0
  <2>1. \A a : \A r : \A s \in 1..at : Extend(a, i, r)[s] = a[s] /\ Pad(i, r)[s] = 0
    BY <1>2 DEF Extend, Pad
  <2>2. (\E a \in rows : \E r : j = Extend(a, i, r)) \/ (\E r : j = Pad(i, r))
    BY <1>1, <1>6 DEF Candidates, PaddedRight, PaddedLeft
  <2> QED BY <2>1, <2>2
<1>7. active' \subseteq 1..at' /\ irrelevant' \subseteq 1..at'
  BY <1>2, <1>4, <1>5
<1>8. empty' => rows' = {}
  <2> SUFFICES ASSUME empty' PROVE rows' = {}  OBVIOUS
  <2>1. CASE empty /\ query.join[i].kind \notin {"right", "full"}
    BY <1>1, <1>4, <2>1 DEF Candidates, PaddedRight, PaddedLeft
  <2>2. CASE i \in words.never /\ query.join[i].kind \in {"inner", "cross"}
    BY <1>1, <2>2 DEF PaddedRight, PaddedLeft
  <2> QED BY <1>0, <2>1, <2>2 DEF Count
<1>9. CASE irrelevant' = irrelevant \cup active /\ active' = {i} /\ ~empty' 
           /\ (empty \/ (i \in words.never /\ query.join[i].kind = "right"))
  <2>1. matched = {} /\ PaddedRight(i, matched) = {}
    BY <1>1, <1>4, <1>9 DEF Candidates, PaddedRight
  <2>2. \A j \in rows' : \A s \in 1..at : j[s] = 0
    BY <1>1, <1>2, <2>1 DEF PaddedLeft, Pad
  <2>3. \A s \in irrelevant' : \A j \in rows' : j[s] = 0
    BY <1>4, <1>9, <2>2
  <2>4. i \notin irrelevant'  BY <1>2, <1>4, <1>9
  <2>5. ASSUME \A m \in 2..i : query.join[m].kind = "full" => ~Scalar(m),
               NEW j \in rows', NEW k \in rows',
               \A s \in 1..i : ~Scalar(s) /\ s \notin irrelevant' => j[s] = k[s]
        PROVE  j = k
    <3> DEFINE old == 1..at
    <3>1. j[i] = k[i] \/ Scalar(i)  BY <1>2, <2>4, <2>5
    <3>2. query.join[i].kind = "full" => ~Scalar(i)  BY <1>2, <2>5
    <3>3. \A a, b \in rows : (\A s \in old : a[s] = b[s]) => a = b
      <4> SUFFICES ASSUME NEW a \in rows, NEW b \in rows, \A s \in 1..at : a[s] = b[s]
                   PROVE  a = b
        OBVIOUS
      <4>1. a \in [1..at -> Nat] /\ b \in [1..at -> Nat]  BY <1>0 DEF TypeOK
      <4>2. a = [s \in 1..at |-> a[s]] /\ b = [s \in 1..at |-> b[s]]  BY <4>1
      <4>3. [s \in 1..at |-> a[s]] = [s \in 1..at |-> b[s]]  OBVIOUS
      <4> QED BY Zenon, <4>2, <4>3
    <3>4. old \in SUBSET (1..at)  OBVIOUS
    <3>5. /\ j \in matched \cup PaddedRight(i, matched) \cup PaddedLeft(i, matched)
          /\ k \in matched \cup PaddedRight(i, matched) \cup PaddedLeft(i, matched)
      BY <1>1, <2>5
    <3> HIDE DEF old
    <3> QED BY <1>0, <1>2, <2>1, <3>1, <3>2, <3>3, <3>4, <3>5, RowsApart
  <2> QED BY <1>2, <1>3, <1>7, <1>8, <2>3, <2>5 DEF UncountedInv, Counts
<1>10. CASE /\ irrelevant' \subseteq irrelevant \cup {i} /\ irrelevant \subseteq irrelevant'
            /\ i \in irrelevant' \ irrelevant =>
                 i \in words.never /\ query.join[i].kind = "left"
  <2>1. i \in irrelevant' => matched = {} /\ query.join[i].kind = "left"
    BY <1>1, <1>2, <1>4, <1>10
  <2>2. ASSUME NEW s \in irrelevant', NEW j \in rows' PROVE j[s] = 0
    <3>1. CASE s \in irrelevant
      <4>1. s \in 1..at  BY <1>4, <3>1
      <4> QED BY <1>4, <1>6, <3>1, <4>1
    <3>2. CASE s = i
      <4>1. j \in PaddedRight(i, matched)
        BY <1>1, <2>1, <2>2, <3>2 DEF PaddedLeft
      <4> QED BY <1>2, <3>2, <4>1 DEF PaddedRight, Extend
    <3> QED BY <1>10, <3>1, <3>2
  <2>3. ASSUME \A m \in 2..i : query.join[m].kind = "full" => ~Scalar(m),
               NEW j \in rows', NEW k \in rows',
               \A s \in 1..i : ~Scalar(s) /\ s \notin irrelevant' => j[s] = k[s]
        PROVE  j = k
    <3> DEFINE old == {s \in 1..at : Counts(s)}
    <3>1. j[i] = k[i] \/ Scalar(i) \/ (query.join[i].kind = "left" /\ matched = {})
      BY <1>2, <2>1, <2>3
    <3>2. query.join[i].kind = "full" => ~Scalar(i)  BY <1>2, <2>3
    <3>3. \A m \in 2..at : query.join[m].kind = "full" => ~Scalar(m)  BY <1>2, <2>3
    <3>4. \A a, b \in rows : (\A s \in old : a[s] = b[s]) => a = b
      BY <3>3 DEF UncountedInv
    <3>5. \A s \in old : j[s] = k[s]
      BY <1>2, <1>10, <2>3 DEF Counts
    <3>6. old \in SUBSET (1..at)  OBVIOUS
    <3> HIDE DEF old
    <3> QED BY <1>0, <1>1, <1>2, <3>1, <3>2, <3>4, <3>5, <3>6, RowsApart
  <2>4. (\A m \in 2..i : query.join[m].kind = "full" => ~Scalar(m)) =>
          \A j, k \in rows' :
            (\A s \in 1..i : ~Scalar(s) /\ s \notin irrelevant' => j[s] = k[s]) => j = k
    BY <2>3
  <2>5. \A s : Counts(s)' <=> ~Scalar(s) /\ s \notin irrelevant'
    BY <1>3 DEF Counts
  <2>6. \A m : Scalar(m)' <=> Scalar(m)
    BY <1>3
  <2> HIDE DEF Counts
  <2> QED BY <1>2, <1>7, <1>8, <2>2, <2>4, <2>5, <2>6 DEF UncountedInv
<1> QED BY <1>5, <1>9, <1>10

LEMMA ProductSteps ==
  ASSUME KeyInv, Chosen_, UncountedInv, [ProductNext]_allVars
  PROVE  Chosen_' /\ UncountedInv'
<1>1. UNCHANGED <<query, words, db>>
  BY DEF ProductNext, CountedJoin, CountedFilter, CountedUnite, JoinNext, Filter, Unite, allVars, vars
<1>2. Chosen_'  BY <1>1 DEF Chosen_
<1>3. ASSUME rows' \subseteq rows, UNCHANGED <<at, active, irrelevant, empty>>
      PROVE  UncountedInv'
  <2>1. ASSUME NEW s PROVE Counts(s)' <=> Counts(s)
    BY <1>1, <1>3 DEF Counts, Scalar, Meta
  <2>2. ASSUME NEW s PROVE Scalar(s)' <=> Scalar(s)
    BY <1>1 DEF Scalar, Meta
  <2> QED BY <1>1, <1>3, <2>1, <2>2 DEF UncountedInv
<1>4. CASE CountedJoin  BY <1>2, <1>4, JoinUncounted
<1>5. CASE CountedFilter
  <2>1. rows' \subseteq rows /\ UNCHANGED at
    BY <1>5 DEF CountedFilter, Filter, Chosen
  <2> QED BY <1>2, <1>3, <1>5, <2>1 DEF CountedFilter, walk
<1>6. CASE CountedUnite
  <2>1. UNCHANGED <<rows, at>>  BY <1>6 DEF CountedUnite, Unite
  <2> QED BY <1>2, <1>3, <1>6, <2>1 DEF CountedUnite, walk
<1>7. CASE UNCHANGED allVars
  BY <1>2, <1>3, <1>7 DEF allVars, vars, walk
<1> QED BY <1>2, <1>4, <1>5, <1>6, <1>7 DEF ProductNext

LEMMA ProductStart == ProductInit => Chosen_ /\ UncountedInv
<1> SUFFICES ASSUME ProductInit PROVE Chosen_ /\ UncountedInv  OBVIOUS
<1>1. Chosen_  BY DEF ProductInit, Chosen_
<1>2. KeyInv /\ at = 1 /\ active = {1} /\ irrelevant = {} /\ empty = FALSE
  BY InitKeys DEF ProductInit, Init
<1>3. ASSUME NEW j \in rows, NEW k \in rows, \A s \in 1..at : Counts(s) => j[s] = k[s]
      PROVE  j = k
  <2>1. PICK r1, r2 \in DOMAIN db[query.from[1]] :
          j = [s \in 1..1 |-> r1] /\ k = [s \in 1..1 |-> r2]
    BY <1>3 DEF ProductInit, Init
  <2>2. 1 \in 1..query.size /\ TypeOK  BY <1>2, QueryFacts DEF KeyInv
  <2>3. r1 = r2
    <3>1. CASE Scalar(1)  BY <1>1, <2>2, <3>1, ScalarUnique
    <3>2. CASE ~Scalar(1)  BY <1>2, <1>3, <2>1, <3>2 DEF Counts
    <3> QED BY <3>1, <3>2
  <2> QED BY <2>1, <2>3
<1> QED BY <1>1, <1>2, <1>3 DEF UncountedInv

(* What the rule leaves out of the count adds nothing, for any SELECT      *)
(* without a FULL JOIN of a scalar source.                                 *)
THEOREM UncountedTheorem == ProductSpec => []UncountedAddNothing
<1>1. KeyInv /\ UncountedInv => UncountedAddNothing
  <2> SUFFICES ASSUME KeyInv, UncountedInv, Done PROVE UncountedAddNothing
    BY DEF UncountedAddNothing
  <2>1. at = query.size  BY AtEnd
  <2> QED BY <2>1 DEF UncountedInv, UncountedAddNothing, Counted, Counts
<1>2. ProductSpec => [](KeyInv /\ Chosen_ /\ UncountedInv)
  BY WalkInv, ProductStart, ProductSteps, PTL DEF ProductSpec
<1> QED BY <1>1, <1>2, PTL

---------------------------------------------------------------------------
(* Of a legible SELECT, at every step: two rows can be mixed, along a set  *)
(* of counted sources that no edge so far leaves, into a third one. So the *)
(* rows are a product where the union-find finds two classes.              *)
Mixed(S, A, j, k) == [s \in S |-> IF s \in A THEN j[s] ELSE k[s]]
UsingEdges(n) == {1..i : i \in {i \in 2..n : query.join[i].form = "using"}}
EdgesAt(n) == UsingEdges(n) \cup UNION {JoinLinks(i) : i \in 2..n}
Edges == EdgesAt(at) \cup (IF filtered THEN WhereLinks ELSE {})

MixInv == \A A \in SUBSET Counted : Closed(A, Edges) =>
  \A j, k \in rows : Mixed(1..at, A, j, k) \in rows
OnceInv == \A i \in 2..at : query.join[i].form = "using" /\ Parted(1..(i - 1), Before(i)) => once
LegibleInv == Legible =>
  /\ irrelevant = {} /\ empty = FALSE /\ attached = {}
  /\ MixInv /\ OnceInv

Uncut(e, A) == e \cap Counted \subseteq A \/ e \cap A = {}
SameOutside(S, j, k) == \A s \in S \ Counted : j[s] = k[s]
Along(equalities, S, A) == \A e \in equalities :
  \E f \in SUBSET S : e[1][1] \in f /\ e[2][1] \in f /\ Uncut(f, A)

(* A mix of two rows that agree outside the counted sources is, on the     *)
(* sources of an edge it does not cut, one of the two.                     *)
LEMMA MixOnEdge ==
  ASSUME NEW S, NEW A \in SUBSET Counted, NEW j, NEW k, SameOutside(S, j, k),
         NEW m, m = Mixed(S, A, j, k), NEW e \in SUBSET S, Uncut(e, A)
  PROVE  (\A s \in e : m[s] = j[s]) \/ (\A s \in e : m[s] = k[s])
<1>1. \A s \in e : m[s] = IF s \in A THEN j[s] ELSE k[s]
  BY DEF Mixed
<1>2. CASE e \cap A = {}
  BY <1>1, <1>2
<1>3. CASE e \cap Counted \subseteq A
  <2>1. ASSUME NEW s \in e, s \notin A PROVE j[s] = k[s]
    BY <1>3, <2>1 DEF SameOutside
  <2> QED BY <1>1, <2>1
<1> QED BY <1>2, <1>3 DEF Uncut

(* A mix passes what both rows pass: equalities and conditions whose       *)
(* sources are an edge.                                                    *)
LEMMA MixPasses ==
  ASSUME NEW S, NEW A \in SUBSET Counted, NEW j, NEW k, SameOutside(S, j, k),
         NEW m, m = Mixed(S, A, j, k),
         NEW equalities, NEW rejects,
         Along(equalities, S, A), \A c \in rejects : c[1] \in S,
         Passes(j, equalities, rejects), Passes(k, equalities, rejects)
  PROVE  Passes(m, equalities, rejects)
<1>1. ASSUME NEW l, NEW c, m[c[1]] = l[c[1]] PROVE Cell(m, c) = Cell(l, c) /\ Key(m, c) = Key(l, c)
  BY <1>1 DEF Cell, Key
<1>2. ASSUME NEW e \in equalities, Signature(e[1]) = Signature(e[2]), Signature(e[1]) # None
      PROVE  Agree(m, e[1], e[2])
  <2>1. PICK f \in SUBSET S : e[1][1] \in f /\ e[2][1] \in f /\ Uncut(f, A)
    BY DEF Along
  <2>2. (\A s \in f : m[s] = j[s]) \/ (\A s \in f : m[s] = k[s])
    BY <2>1, MixOnEdge
  <2>3. Agree(j, e[1], e[2]) /\ Agree(k, e[1], e[2])  BY <1>2 DEF Passes
  <2> QED BY <1>1, <2>1, <2>2, <2>3 DEF Agree
<1>3. ASSUME NEW c \in rejects PROVE Cell(m, c) # None
  <2>1. m[c[1]] = j[c[1]] \/ m[c[1]] = k[c[1]]  BY DEF Mixed
  <2>2. Cell(j, c) # None /\ Cell(k, c) # None  BY DEF Passes
  <2> QED BY <1>1, <2>1, <2>2
<1> QED BY Zenon, <1>2, <1>3 DEF Passes

LEMMA MixHolds ==
  ASSUME NEW S, NEW A \in SUBSET Counted, NEW j, NEW k, SameOutside(S, j, k),
         NEW m, m = Mixed(S, A, j, k),
         NEW c, Touches(c) \in SUBSET S,
         Uncut(Touches(c), A) \/ \A s, t \in Touches(c) : s = t,
         Holds(c, j), Holds(c, k)
  PROVE  Holds(c, m)
<1>1. Uncut(Touches(c), A)  BY DEF Uncut
<1>2. (\A s \in Touches(c) : m[s] = j[s]) \/ (\A s \in Touches(c) : m[s] = k[s])
  <2> DEFINE e == Touches(c)
  <2>1. e \in SUBSET S /\ Uncut(e, A)  BY Zenon, <1>1
  <2> HIDE DEF e
  <2>2. (\A s \in e : m[s] = j[s]) \/ (\A s \in e : m[s] = k[s])  BY <2>1, MixOnEdge
  <2> QED BY Zenon, <2>2 DEF e
<1>3. ASSUME NEW l, \A s \in Touches(c) : m[s] = l[s], Holds(c, l)  PROVE Holds(c, m)
  <2>1. [s \in Touches(c) |-> m[s]] = [s \in Touches(c) |-> l[s]]  BY <1>3
  <2> QED BY <1>3, <2>1 DEF Holds
<1> QED BY <1>2, <1>3

(* Rows without padding agree on the scalar sources.                       *)
LEMMA Outside ==
  ASSUME TypeOK, Chosen_, irrelevant = {}, NEW n \in 1..query.size, NEW j, NEW k,
         \A s \in 1..n : j[s] \in DOMAIN db[query.from[s]] /\ k[s] \in DOMAIN db[query.from[s]]
  PROVE  SameOutside(1..n, j, k)
<1> SUFFICES ASSUME NEW s \in 1..n, s \notin Counted PROVE j[s] = k[s]
  BY DEF SameOutside
<1>1. s \in 1..query.size  BY QueryFacts
<1>2. Scalar(s)  BY <1>1 DEF Counted
<1> QED BY <1>1, <1>2, ScalarUnique

(* What a legible SELECT is, without the part that all proofs leave out.   *)
LEMMA LegibleFacts ==
  ASSUME KeyInv, Chosen_, Legible
  PROVE  /\ \A i \in 2..query.size :
              /\ query.join[i].kind \in {"inner", "cross"} /\ ~NullExtends(i)
              /\ query.join[i].form \in {"on", "using"}
              /\ query.join[i].on.opaque => Told(i)
              /\ i \notin words.never
              /\ \A c \in words.said[i] : Touches(c) \in SUBSET (1..i)
         /\ query.where.opaque => Told(1)
         /\ \A c \in words.said[1] : Touches(c) \in SUBSET (1..query.size)
         /\ \A i \in 1..query.size : \A c \in words.said[i] : \E p \in c :
              Links(p) = Touches(c) \/ \A s, t \in Touches(c) : s = t
<1>1. PICK x \in Selects : query = x.select /\ words = x.words  BY DEF Chosen_
<1>2. /\ \A i \in 2..query.size : \A c \in words.said[i] : Touches(c) \subseteq 1..i
      /\ \A c \in words.said[1] : Touches(c) \subseteq 1..query.size
  BY <1>1, ProductAssumption DEF ProductAssumption
<1>3. \A i \in 2..query.size : query.join[i] \in Join
  BY ClauseFacts DEF KeyInv
<1>4. \A i \in 2..query.size : query.join[i].form \in {"on", "using"}
  BY <1>3 DEF Join, Forms, Legible
<1> QED BY <1>2, <1>4 DEF Legible, NullExtends

(* The rows of a legible SELECT are not padded.                            *)
LEMMA LegibleRows ==
  ASSUME KeyInv, Chosen_, Legible, NEW j \in rows, NEW s \in 1..at
  PROVE  j[s] \in DOMAIN db[query.from[s]]
<1>1. TypeOK /\ at \in 1..query.size /\ query.size \in Nat  BY QueryFacts DEF KeyInv, TypeOK
<1>2. \A i \in 2..at : ~NullExtends(i)  BY <1>1, LegibleFacts
<1>3. j[s] # 0  BY <1>2 DEF KeyInv, PaddingInv
<1> QED BY <1>1, <1>3 DEF TypeOK

(* Conditions on rows of a legible SELECT carry over to a mix.             *)
AllHold(conditions, j) == \A c \in conditions : Holds(c, j)
SaidAlong(conditions, S, A) == \A c \in conditions :
  Touches(c) \in SUBSET S /\ (Uncut(Touches(c), A) \/ \A s, t \in Touches(c) : s = t)

LEMMA MixSaid ==
  ASSUME NEW S, NEW A \in SUBSET Counted, NEW j, NEW k, SameOutside(S, j, k),
         NEW m, m = Mixed(S, A, j, k),
         NEW conditions, SaidAlong(conditions, S, A),
         AllHold(conditions, j), AllHold(conditions, k)
  PROVE  AllHold(conditions, m)
<1> SUFFICES ASSUME NEW c \in conditions PROVE Holds(c, m)  BY DEF AllHold
<1>1. Touches(c) \in SUBSET S /\ Holds(c, j) /\ Holds(c, k)
      /\ (Uncut(Touches(c), A) \/ \A s, t \in Touches(c) : s = t)
  BY DEF SaidAlong, AllHold
<1> QED BY <1>1, MixHolds

LEMMA LegibleAlong ==
  ASSUME KeyInv, Chosen_, Legible, NEW i \in 1..query.size, NEW A,
         \A e \in SaidLinks(words.said[i]) : Uncut(e, A)
  PROVE  SaidAlong(words.said[i], IF i = 1 THEN 1..query.size ELSE 1..i, A)
<1> SUFFICES ASSUME NEW c \in words.said[i]
             PROVE  /\ Touches(c) \in SUBSET (IF i = 1 THEN 1..query.size ELSE 1..i)
                    /\ Uncut(Touches(c), A) \/ \A s, t \in Touches(c) : s = t
  BY DEF SaidAlong
<1>1. PICK p \in c : Links(p) = Touches(c) \/ \A s, t \in Touches(c) : s = t
  BY LegibleFacts
<1>2. Uncut(Links(p), A)  BY DEF SaidLinks
<1>3. i = 1 \/ i \in 2..query.size  BY QueryFacts DEF KeyInv
<1>4. Touches(c) \in SUBSET (IF i = 1 THEN 1..query.size ELSE 1..i)
  BY <1>3, LegibleFacts
<1> QED BY <1>1, <1>2, <1>4

LEMMA JoinedLegible ==
  ASSUME KeyInv, Chosen_, Legible, CountedJoin, NEW i, i = at + 1
  PROVE  rows' = {j \in Candidates(i) : \A c \in words.said[i] : Holds(c, j)}
<1>1. i \in 2..query.size /\ JoinNext  BY JoinStep DEF CountedJoin
<1>2. /\ query.join[i].kind \in {"inner", "cross"} /\ i \notin words.never
      /\ query.join[i].on.opaque => Told(i)
  BY <1>1, LegibleFacts
<1>3. \A matched : PaddedRight(i, matched) = {} /\ PaddedLeft(i, matched) = {}
  BY <1>2 DEF PaddedRight, PaddedLeft
<1>4. CASE Told(i)
  <2>1. rows' = Matched(i) \cup PaddedRight(i, Matched(i)) \cup PaddedLeft(i, Matched(i))
    BY <1>4 DEF CountedJoin
  <2>2. rows' = Matched(i)  BY <1>3, <2>1
  <2> QED BY <1>2, <2>2 DEF Matched
<1>5. CASE ~Told(i)
  <2>1. words.said[i] = {}  BY <1>5 DEF Told, ToldOf
  <2>2. ~Uncertain(i)
    <3>1. ~query.join[i].on.opaque  BY <1>2, <1>5
    <3>2. \A k \in 2..(i - 1) : k \in 2..query.size
      BY <1>1, QueryFacts DEF KeyInv
    <3>3. \A k \in 2..(i - 1) : query.join[k].kind \in {"inner", "cross"}
      BY <3>2, LegibleFacts
    <3> QED BY <3>1, <3>3 DEF Uncertain, Coalesced
  <2>3. rows' = Candidates(i)  BY <1>1, <1>3, <2>2 DEF JoinNext, Chosen
  <2> QED BY <2>1, <2>3
<1> QED BY <1>4, <1>5

LEMMA FilteredLegible ==
  ASSUME KeyInv, Chosen_, Legible, CountedFilter
  PROVE  rows' = {j \in rows : /\ Passes(j, query.where.equal, query.where.rejects)
                               /\ \A c \in words.said[1] : Holds(c, j)}
<1>1. query.where.opaque => Told(1)  BY LegibleFacts
<1>2. CASE Told(1)  BY <1>2 DEF CountedFilter
<1>3. CASE ~Told(1)
  <2>1. words.said[1] = {}  BY <1>3 DEF Told, ToldOf
  <2>2. ~query.where.opaque  BY <1>1, <1>3
  <2>3. rows' = {j \in rows : Passes(j, query.where.equal, query.where.rejects)}
    BY <2>2 DEF CountedFilter, Filter, Chosen
  <2> QED BY <2>1, <2>3
<1> QED BY <1>2, <1>3

(* The equalities of a join run along edges.                               *)
LEMMA JoinAlong ==
  ASSUME KeyInv, Chosen_, Legible, NEW i \in 2..query.size, NEW A \in SUBSET Counted,
         \A e \in EdgesAt(i) : Uncut(e, A)
  PROVE  Along(JoinEqualities(i), 1..i, A)
<1> SUFFICES ASSUME NEW e \in JoinEqualities(i)
             PROVE  \E f \in SUBSET (1..i) : e[1][1] \in f /\ e[2][1] \in f /\ Uncut(f, A)
  BY DEF Along
<1>1. e[1][1] \in 1..i /\ e[2][1] \in 1..i  BY JoinPairs DEF KeyInv
<1>2. i \in 2..i  BY QueryFacts DEF KeyInv
<1>3. CASE query.join[i].form = "on"
  <2> DEFINE f == {e[1][1], e[2][1]}
  <2>1. f \in JoinLinks(i)
    BY <1>3 DEF JoinLinks, EqualityLinks, JoinEqualities
  <2>2. f \in EdgesAt(i)  BY <1>2, <2>1 DEF EdgesAt
  <2>3. f \in SUBSET (1..i) /\ e[1][1] \in f /\ e[2][1] \in f  BY <1>1
  <2> HIDE DEF f
  <2> QED BY <2>2, <2>3
<1>4. CASE query.join[i].form = "using"
  <2> DEFINE f == 1..i
  <2>1. f \in EdgesAt(i)  BY <1>2, <1>4 DEF EdgesAt, UsingEdges
  <2>2. f \in SUBSET (1..i) /\ e[1][1] \in f /\ e[2][1] \in f  BY <1>1
  <2> HIDE DEF f
  <2> QED BY <2>1, <2>2
<1> QED BY <1>3, <1>4, LegibleFacts

(* A join of a legible SELECT keeps all mixes along the edges it adds to.  *)
LEMMA JoinMixes ==
  ASSUME KeyInv, Chosen_, Legible, LegibleInv, CountedJoin, ~filtered,
         NEW i, i = at + 1, NEW A \in SUBSET Counted, \A e \in EdgesAt(i) : Uncut(e, A),
         NEW j \in rows', NEW k \in rows'
  PROVE  Mixed(1..i, A, j, k) \in rows'
<1> DEFINE D == DOMAIN db[query.from[i]]
           m == Mixed(1..i, A, j, k)
           rejects == IF query.join[i].form = "on" THEN query.join[i].on.rejects ELSE {}
<1>1. rows' = {l \in Candidates(i) : \A c \in words.said[i] : Holds(c, l)}
  BY JoinedLegible
<1>2. i \in 2..query.size /\ i \in Nat /\ at \in Nat /\ i \in 1..i /\ TypeOK
      /\ i \in 1..query.size /\ \A s \in 1..at : s \in 1..i /\ s # i
  BY JoinStep, QueryFacts DEF CountedJoin, KeyInv
<1>3. PICK a \in rows, r1 \in D : j = Extend(a, i, r1)  BY <1>1 DEF Candidates
<1>4. PICK b \in rows, r2 \in D : k = Extend(b, i, r2)  BY <1>1 DEF Candidates
<1>5. /\ Passes(j, JoinEqualities(i), rejects) /\ Passes(k, JoinEqualities(i), rejects)
      /\ \A c \in words.said[i] : Holds(c, j) /\ Holds(c, k)
  BY <1>1 DEF Candidates
<1>6. Mixed(1..at, A, a, b) \in rows
  <2>1. \A e \in Edges : e \in EdgesAt(i)
    <3>1. \A h \in 2..at : h \in 2..i  BY <1>2
    <3> QED BY <3>1 DEF Edges, EdgesAt, UsingEdges
  <2>2. Closed(A, Edges)  BY <2>1 DEF Closed, Uncut
  <2> QED BY <2>2 DEF LegibleInv, MixInv
<1>7. m = Extend(Mixed(1..at, A, a, b), i, IF i \in A THEN r1 ELSE r2)
  <2>1. \A s \in 1..i : m[s] = Extend(Mixed(1..at, A, a, b), i, IF i \in A THEN r1 ELSE r2)[s]
    BY <1>2, <1>3, <1>4 DEF Mixed, Extend
  <2> QED BY <2>1 DEF Mixed, Extend
<1>8. SameOutside(1..i, j, k)
  <2>1. \A s \in 1..at : a[s] \in DOMAIN db[query.from[s]] /\ b[s] \in DOMAIN db[query.from[s]]
    BY LegibleRows
  <2>2. \A s \in 1..i : j[s] \in DOMAIN db[query.from[s]] /\ k[s] \in DOMAIN db[query.from[s]]
    BY <1>2, <1>3, <1>4, <2>1 DEF Extend
  <2>3. irrelevant = {}  BY DEF LegibleInv
  <2> QED BY <1>2, <2>2, <2>3, Outside
<1>9. Passes(m, JoinEqualities(i), rejects)
  <2>1. Along(JoinEqualities(i), 1..i, A)  BY <1>2, JoinAlong
  <2>2. \A c \in rejects : c[1] \in 1..i  BY <1>2, ClauseFacts
  <2> HIDE DEF rejects
  <2> QED BY <1>5, <1>8, <2>1, <2>2, MixPasses
<1>10. \A c \in words.said[i] : Holds(c, m)
  <2>1. \A e \in SaidLinks(words.said[i]) : Uncut(e, A)
    <3>1. i \in 2..i  BY <1>2
    <3> QED BY <3>1 DEF EdgesAt, JoinLinks
  <2>2. i # 1  BY <1>2
  <2>3. SaidAlong(words.said[i], 1..i, A)  BY <1>2, <2>1, <2>2, LegibleAlong
  <2>4. AllHold(words.said[i], j) /\ AllHold(words.said[i], k)  BY <1>5 DEF AllHold
  <2>5. AllHold(words.said[i], m)  BY <1>8, <2>3, <2>4, MixSaid
  <2> QED BY <2>5 DEF AllHold
<1>11. (IF i \in A THEN r1 ELSE r2) \in D  OBVIOUS
<1>12. m \in Candidates(i)
  <2> HIDE DEF m, D
  <2>1. m \in {Extend(l, i, r) : l \in rows, r \in D}  BY <1>6, <1>7, <1>11
  <2> QED BY <1>9, <2>1 DEF Candidates, D
<1> QED BY <1>1, <1>10, <1>12

LEMMA FilterMixes ==
  ASSUME KeyInv, Chosen_, Legible, LegibleInv, CountedFilter,
         NEW A \in SUBSET Counted, \A e \in EdgesAt(at) \cup WhereLinks : Uncut(e, A),
         NEW j \in rows', NEW k \in rows'
  PROVE  Mixed(1..at, A, j, k) \in rows'
<1> DEFINE S == 1..at
           m == Mixed(S, A, j, k)
<1>1. rows' = {l \in rows : /\ Passes(l, query.where.equal, query.where.rejects)
                            /\ \A c \in words.said[1] : Holds(c, l)}
  BY FilteredLegible
<1>2. /\ at = query.size /\ ~filtered /\ TypeOK /\ j \in rows /\ k \in rows
      /\ query.size \in 1..query.size
  BY <1>1, QueryFacts DEF CountedFilter, Filter, KeyInv
<1>3. m \in rows
  <2>1. Closed(A, Edges)  BY <1>2 DEF Closed, Edges, Uncut
  <2> QED BY <1>2, <2>1 DEF LegibleInv, MixInv
<1>4. SameOutside(S, j, k)
  <2>1. \A s \in 1..at : j[s] \in DOMAIN db[query.from[s]] /\ k[s] \in DOMAIN db[query.from[s]]
    BY <1>2, LegibleRows
  <2>2. irrelevant = {}  BY DEF LegibleInv
  <2> QED BY <1>2, <2>1, <2>2, Outside
<1>5. Passes(m, query.where.equal, query.where.rejects)
  <2>1. Along(query.where.equal, S, A)
    <3> SUFFICES ASSUME NEW e \in query.where.equal
                 PROVE  \E f \in SUBSET S : e[1][1] \in f /\ e[2][1] \in f /\ Uncut(f, A)
      BY DEF Along
    <3> DEFINE f == {e[1][1], e[2][1]}
    <3>1. f \in WhereLinks  BY DEF WhereLinks, EqualityLinks
    <3>2. f \in SUBSET S /\ e[1][1] \in f /\ e[2][1] \in f  BY <1>2, ClauseFacts
    <3> HIDE DEF f
    <3> QED BY <3>1, <3>2
  <2>2. \A c \in query.where.rejects : c[1] \in S  BY <1>2, ClauseFacts
  <2>3. /\ Passes(j, query.where.equal, query.where.rejects)
        /\ Passes(k, query.where.equal, query.where.rejects)
    BY <1>1
  <2> HIDE DEF S
  <2> QED BY <1>4, <2>1, <2>2, <2>3, MixPasses
<1>6. \A c \in words.said[1] : Holds(c, m)
  <2>1. \A e \in SaidLinks(words.said[1]) : Uncut(e, A)  BY DEF WhereLinks
  <2>2. 1 \in 1..query.size  BY <1>2, QueryFacts
  <2>3. SaidAlong(words.said[1], S, A)  BY <1>2, <2>1, <2>2, LegibleAlong
  <2>4. AllHold(words.said[1], j) /\ AllHold(words.said[1], k)  BY <1>1 DEF AllHold
  <2> HIDE DEF S
  <2>5. AllHold(words.said[1], m)  BY <1>4, <2>3, <2>4, MixSaid
  <2> QED BY <2>5 DEF AllHold
<1> QED BY <1>1, <1>3, <1>5, <1>6

(* A part of the sources that no edge before a USING leaves is a product.  *)
LEMMA PartedIsProduct ==
  ASSUME KeyInv, MixInv, NEW edges, Edges \subseteq edges, Parted(1..at, edges)
  PROVE  IsProduct
<1>1. PICK A \in SUBSET Counted : Closed(A, edges) /\ Parts(A, 1..at)
  BY DEF Parted
<1>2. Closed(A, Edges)  BY <1>1 DEF Closed
<1>3. \A j, k \in rows : Mixed(1..at, A, j, k) \in rows  BY <1>2 DEF MixInv
<1> DEFINE B == A \cap (1..at)
<1>4. B \in SUBSET (1..at)  OBVIOUS
<1>5. \E s \in B : ~Scalar(s)  BY <1>1 DEF Parts, Counted
<1>6. \E s \in (1..at) \ B : ~Scalar(s)  BY <1>1 DEF Parts, Counted
<1>7. CombineOn(B)
  <2> SUFFICES ASSUME NEW j \in rows, NEW k \in rows
               PROVE  \E m \in rows : \A s \in 1..at : m[s] = IF s \in B THEN j[s] ELSE k[s]
    BY DEF CombineOn
  <2> DEFINE m == Mixed(1..at, A, j, k)
  <2>1. m \in rows /\ \A s \in 1..at : m[s] = IF s \in B THEN j[s] ELSE k[s]
    BY <1>3 DEF Mixed
  <2> HIDE DEF m
  <2> QED BY <2>1
<1> HIDE DEF B
<1> QED BY <1>4, <1>5, <1>6, <1>7 DEF IsProduct

(* The edges so far are among those before a source that joins later.      *)
LEMMA EdgesBefore ==
  ASSUME TypeOK, attached = {}, NEW i, i = at + 1
  PROVE  /\ EdgesAt(at) \subseteq Before(i) /\ Edges \subseteq Before(i)
         /\ \A n \in 1..query.size : n < i => EdgesAt(n) \subseteq Before(i)
<1>1. at \in 1..query.size /\ query.size \in Nat  BY QueryFacts DEF TypeOK
<1>2. ASSUME NEW n \in 1..query.size, n < i PROVE EdgesAt(n) \subseteq Before(i)
  <2>1. ASSUME NEW h \in 2..n, query.join[h].form = "using" PROVE 1..h \in Before(i)
    <3> DEFINE mark == [join |-> h, left |-> 1..(h - 1), right |-> {h}]
    <3>1. h \in 2..query.size /\ h < i /\ h \in Nat  BY <1>1, <1>2
    <3>2. mark \in Attachments  BY <2>1, <3>1 DEF Attachments
    <3>3. mark.join < i /\ mark.left \cup mark.right = 1..h  BY <3>1
    <3> HIDE DEF mark
    <3> QED BY <3>2, <3>3 DEF Before
  <2>2. \A h \in 2..n : JoinLinks(h) \subseteq Before(i)
    <3>1. \A h \in 2..n : h \in 2..query.size  BY <1>1
    <3> QED BY <3>1 DEF Before, ConditionEdges
  <2> QED BY <2>1, <2>2 DEF EdgesAt, UsingEdges
<1>3. EdgesAt(at) \subseteq Before(i)  BY <1>1, <1>2
<1>4. WhereLinks \subseteq Before(i)  BY DEF Before, ConditionEdges
<1> QED BY <1>2, <1>3, <1>4 DEF Edges

LEMMA LegibleStart == ProductInit => LegibleInv
<1> SUFFICES ASSUME ProductInit PROVE LegibleInv  OBVIOUS
<1>1. /\ KeyInv /\ at = 1 /\ irrelevant = {} /\ empty = FALSE /\ attached = {}
      /\ rows = {[s \in 1..1 |-> r] : r \in DOMAIN db[query.from[1]]}
  BY InitKeys DEF ProductInit, Init
<1>2. MixInv
  <2> SUFFICES ASSUME NEW A \in SUBSET Counted, NEW j \in rows, NEW k \in rows
               PROVE  Mixed(1..at, A, j, k) \in rows
    BY DEF MixInv
  <2>1. PICK r1, r2 \in DOMAIN db[query.from[1]] :
          j = [s \in 1..1 |-> r1] /\ k = [s \in 1..1 |-> r2]
    BY <1>1
  <2>2. Mixed(1..at, A, j, k) = [s \in 1..1 |-> IF 1 \in A THEN r1 ELSE r2]
    BY <1>1, <2>1 DEF Mixed
  <2> QED BY <1>1, <2>1, <2>2
<1>3. OnceInv
  <2>1. \A i \in 2..at : FALSE  BY <1>1
  <2> QED BY <2>1 DEF OnceInv
<1> QED BY <1>1, <1>2, <1>3 DEF LegibleInv

(* The edges are those of the text: a step changes which are seen only.    *)
LEMMA SameText ==
  ASSUME UNCHANGED <<query, words, irrelevant, attached>>
  PROVE  /\ Counted' = Counted /\ (Legible' <=> Legible)
         /\ WhereLinks' = WhereLinks
         /\ \A n : EdgesAt(n)' = EdgesAt(n)
         /\ \A i : Before(i)' = Before(i)
<1>1. ASSUME NEW i PROVE JoinLinks(i)' = JoinLinks(i)  BY DEF JoinLinks
<1>2. WhereLinks' = WhereLinks  BY DEF WhereLinks
<1>3. ConditionEdges' = ConditionEdges  BY <1>1, <1>2 DEF ConditionEdges
<1>4. Attachments' = Attachments  BY DEF Attachments
<1>5. ASSUME NEW i PROVE Before(i)' = Before(i)  BY <1>3, <1>4 DEF Before
<1>6. ASSUME NEW n PROVE EdgesAt(n)' = EdgesAt(n)  BY <1>1 DEF EdgesAt, UsingEdges
<1>7. Counted' = Counted  BY DEF Counted, Scalar, Meta
<1>8. Legible' <=> Legible  BY DEF Legible, Told
<1> QED BY <1>2, <1>5, <1>6, <1>7, <1>8

LEMMA JoinLegible ==
  ASSUME KeyInv, Chosen_, LegibleInv, Legible, CountedJoin
  PROVE  LegibleInv'
<1> DEFINE i == at + 1
<1>0. /\ i \in 2..query.size /\ at \in Nat /\ at' = i /\ TypeOK
      /\ UNCHANGED <<query, words, db, filtered>> /\ Count(i)
  BY JoinStep DEF CountedJoin, KeyInv
<1>1. /\ ~empty /\ irrelevant = {} /\ attached = {} /\ MixInv /\ OnceInv
      /\ i \notin words.never
  BY <1>0, LegibleFacts DEF LegibleInv
<1>2. irrelevant' = {} /\ empty' = FALSE /\ attached' = {} /\ UNCHANGED <<irrelevant, attached>>
  BY <1>0, <1>1 DEF Count, LegibleInv
<1>3. ~filtered
  <2>1. at < query.size /\ query.size \in Nat  BY <1>0, QueryFacts DEF CountedJoin
  <2> QED BY <2>1 DEF KeyInv, WhereInv
<1>4. /\ Counted' = Counted /\ \A n : EdgesAt(n)' = EdgesAt(n)
      /\ \A n : Before(n)' = Before(n)
  BY <1>0, <1>2, SameText
<1>5. MixInv'
  <2>1. EdgesAt(i) \subseteq Edges'
    <3>1. UsingEdges(i) \subseteq UsingEdges(at)'  BY <1>0 DEF UsingEdges
    <3>2. \A h \in 2..i : JoinLinks(h)' = JoinLinks(h)  BY <1>0 DEF JoinLinks
    <3>3. EdgesAt(i) \subseteq EdgesAt(at)'  BY <1>0, <3>1, <3>2 DEF EdgesAt
    <3> QED BY <3>3 DEF Edges
  <2>2. ASSUME NEW A \in SUBSET Counted', \A e \in Edges' : Uncut(e, A)',
               NEW j \in rows', NEW k \in rows'
        PROVE  Mixed(1..i, A, j, k) \in rows'
    <3>1. \A e \in EdgesAt(i) : Uncut(e, A)  BY <1>4, <2>1, <2>2 DEF Uncut
    <3>2. A \in SUBSET Counted  BY <1>4
    <3> QED BY <1>3, <3>1, <3>2, JoinMixes
  <2> QED BY <1>0, <2>2 DEF MixInv, Closed, Uncut, Mixed
<1>6. ASSUME NEW h \in 2..i, query.join[h].form = "using", Parted(1..(h - 1), Before(h))
      PROVE  once'
  <2>1. CASE h = i
    <3>1. Edges \subseteq Before(i)  BY <1>0, <1>1, EdgesBefore
    <3>2. Parted(1..at, Before(i))
      <4>1. h - 1 = at  BY <1>0, <2>1
      <4> QED BY <1>6, <2>1, <4>1
    <3>3. IsProduct  BY <1>1, <3>1, <3>2, PartedIsProduct
    <3> QED BY <1>6, <2>1, <3>3 DEF CountedJoin
  <2>2. CASE h # i
    <3>1. h \in 2..at  BY <1>0, <2>2
    <3>2. once  BY <1>1, <1>6, <3>1 DEF OnceInv
    <3> QED BY <3>2 DEF CountedJoin
  <2> QED BY <2>1, <2>2
<1>7. OnceInv'
  <2> SUFFICES ASSUME NEW h \in 2..at', query'.join[h].form = "using",
                      Parted(1..(h - 1), Before(h))'
               PROVE  once'
    BY DEF OnceInv
  <2>1. Parted(1..(h - 1), Before(h))  BY <1>4 DEF Parted, Closed, Parts
  <2> QED BY <1>0, <1>6, <2>1
<1> QED BY <1>2, <1>5, <1>7 DEF LegibleInv

LEMMA FilterLegible ==
  ASSUME KeyInv, Chosen_, LegibleInv, Legible, CountedFilter
  PROVE  LegibleInv'
<1>0. /\ at = query.size /\ filtered' = TRUE
      /\ UNCHANGED <<query, words, at, once, irrelevant, attached, empty>>
  BY DEF CountedFilter, Filter, walk
<1>1. /\ Counted' = Counted /\ WhereLinks' = WhereLinks /\ \A n : EdgesAt(n)' = EdgesAt(n)
      /\ \A n : Before(n)' = Before(n)
  BY <1>0, SameText
<1>2. MixInv'
  <2>1. EdgesAt(at) \cup WhereLinks \subseteq Edges'
    <3>1. UsingEdges(at) \subseteq UsingEdges(at)'  BY <1>0 DEF UsingEdges
    <3>2. \A h \in 2..at : JoinLinks(h)' = JoinLinks(h)  BY <1>0 DEF JoinLinks
    <3>3. EdgesAt(at) \subseteq EdgesAt(at)'  BY <1>0, <3>1, <3>2 DEF EdgesAt
    <3> QED BY <1>0, <1>1, <3>3 DEF Edges
  <2>2. ASSUME NEW A \in SUBSET Counted', \A e \in Edges' : Uncut(e, A)',
               NEW j \in rows', NEW k \in rows'
        PROVE  Mixed(1..at, A, j, k) \in rows'
    <3>1. \A e \in EdgesAt(at) \cup WhereLinks : Uncut(e, A)
      BY <1>1, <2>1, <2>2 DEF Uncut
    <3>2. A \in SUBSET Counted  BY <1>1
    <3> QED BY <3>1, <3>2, FilterMixes
  <2> QED BY <1>0, <2>2 DEF MixInv, Closed, Uncut, Mixed
<1>3. OnceInv'
  <2> SUFFICES ASSUME NEW h \in 2..at', query'.join[h].form = "using",
                      Parted(1..(h - 1), Before(h))'
               PROVE  once'
    BY DEF OnceInv
  <2>1. Parted(1..(h - 1), Before(h))  BY <1>1 DEF Parted, Closed, Parts
  <2> QED BY <1>0, <2>1 DEF LegibleInv, OnceInv
<1> QED BY <1>0, <1>2, <1>3 DEF LegibleInv

LEMMA LegibleSteps ==
  ASSUME KeyInv, Chosen_, LegibleInv, [ProductNext]_allVars
  PROVE  LegibleInv'
<1>1. Legible' <=> Legible
  <2>1. UNCHANGED <<query, words>>
    BY DEF ProductNext, CountedJoin, CountedFilter, CountedUnite, JoinNext, Filter, Unite, allVars, vars
  <2> QED BY <2>1 DEF Legible, Told
<1>2. ASSUME UNCHANGED <<query, db, words, at, rows, filtered, once, walk>> PROVE LegibleInv'
  <2>1. UNCHANGED <<irrelevant, attached, empty>>  BY <1>2 DEF walk
  <2>2. Counted' = Counted /\ WhereLinks' = WhereLinks /\ \A n : Before(n)' = Before(n)
    BY <1>2, <2>1, SameText
  <2>3. \A h : JoinLinks(h)' = JoinLinks(h)  BY <1>2 DEF JoinLinks
  <2>4. EdgesAt(at)' = EdgesAt(at)  BY <1>2, <2>3 DEF EdgesAt, UsingEdges
  <2>5. Edges' = Edges  BY <1>2, <2>2, <2>4 DEF Edges
  <2>6. MixInv => MixInv'
    <3> SUFFICES ASSUME MixInv, NEW A \in SUBSET Counted', Closed(A, Edges)',
                        NEW j \in rows', NEW k \in rows'
                 PROVE  Mixed(1..at, A, j, k)' \in rows'
      BY DEF MixInv
    <3>1. A \in SUBSET Counted /\ Closed(A, Edges)  BY <2>2, <2>5 DEF Closed
    <3>2. Mixed(1..at, A, j, k) \in rows  BY <1>2, <3>1 DEF MixInv
    <3> QED BY <1>2, <3>2 DEF Mixed
  <2>7. OnceInv => OnceInv'  BY <1>2, <2>2 DEF OnceInv, Parted, Closed, Parts
  <2> QED BY <1>1, <1>2, <2>1, <2>6, <2>7 DEF LegibleInv
<1>3. CASE ~Legible  BY <1>1, <1>3 DEF LegibleInv
<1>4. CASE Legible /\ CountedJoin  BY <1>4, JoinLegible
<1>5. CASE Legible /\ CountedFilter  BY <1>5, FilterLegible
<1>6. CASE CountedUnite  BY <1>2, <1>6 DEF CountedUnite, Unite
<1>7. CASE UNCHANGED allVars  BY <1>2, <1>7 DEF allVars, vars, walk
<1> QED BY <1>3, <1>4, <1>5, <1>6, <1>7 DEF ProductNext

(* What _detect_cartesian_product reports of a legible SELECT is one: its  *)
(* rows, or those that some USING joined to, combine two groups of sources *)
(* freely.                                                                 *)
THEOREM ProductTheorem == ProductSpec => []ReportedIsProduct
<1>1. KeyInv /\ Chosen_ /\ LegibleInv => ReportedIsProduct
  <2> SUFFICES ASSUME KeyInv, Chosen_, LegibleInv, Done, Legible, Reported
               PROVE  IsProduct \/ once
    BY DEF ReportedIsProduct
  <2>1. at = query.size /\ TypeOK /\ filtered /\ at \in Nat /\ at >= 1  BY AtEnd DEF Done
  <2>2. irrelevant = {} /\ attached = {} /\ MixInv /\ OnceInv  BY DEF LegibleInv
  <2>3. \/ \E m \in Attachments : Parted(m.left, Before(m.join))
        \/ Parted(Counted, Before(query.size + 1))
    BY DEF Reported, Connected
  <2>4. CASE \E m \in Attachments : Parted(m.left, Before(m.join))
    <3>1. PICK h \in 2..query.size :
            query.join[h].form = "using" /\ Parted(1..(h - 1), Before(h))
      BY <2>2, <2>4 DEF Attachments
    <3> QED BY <2>1, <2>2, <3>1 DEF OnceInv
  <2>5. CASE Parted(Counted, Before(query.size + 1))
    <3>1. Edges \subseteq Before(query.size + 1)  BY <2>1, <2>2, EdgesBefore
    <3>2. Counted \subseteq 1..at  BY <2>1 DEF Counted
    <3>3. Parted(1..at, Before(query.size + 1))
      BY <2>5, <3>2 DEF Parted, Parts
    <3> QED BY <2>2, <3>1, <3>3, PartedIsProduct
  <2> QED BY <2>3, <2>4, <2>5
<1>2. ProductSpec => [](KeyInv /\ Chosen_ /\ UncountedInv /\ LegibleInv)
  BY WalkInv, ProductStart, LegibleStart, ProductSteps, LegibleSteps, PTL DEF ProductSpec
<1> QED BY <1>1, <1>2, PTL
============================================================================
