--------------------------- MODULE Session_proofs ---------------------------
(***************************************************************************)
(* Proofs about Session, for any windows and files and any number of       *)
(* starts: the stored session is that of the open windows, what an exit    *)
(* has prepared stays as it was saved, and what was open at the end is     *)
(* kept.                                                                   *)
(***************************************************************************)
EXTENDS Session, FiniteSetTheorems, TLAPS

-----------------------------------------------------------------------------
(* Sequences *)

Distinct(s) == \A i, j \in DOMAIN s : s[i] = s[j] => i = j
DistinctIds(s) == \A i, j \in DOMAIN s : s[i].id = s[j].id => i = j

\* The sequence without its entry at i.
LEMMA WithoutAt ==
    ASSUME NEW S, NEW s \in Seq(S), NEW i \in DOMAIN s
    PROVE /\ RemoveAt(s, i) \in Seq(S)
          /\ Len(RemoveAt(s, i)) = Len(s) - 1
          /\ \A j \in 1..(Len(s) - 1) :
                RemoveAt(s, i)[j] = IF j < i THEN s[j] ELSE s[j + 1]
<1>1. i \in 1..Len(s)
  OBVIOUS
<1>2. /\ SubSeq(s, 1, i - 1) \in Seq(S) /\ Len(SubSeq(s, 1, i - 1)) = i - 1
      /\ \A j \in 1..(i - 1) : SubSeq(s, 1, i - 1)[j] = s[j]
  BY <1>1
<1>3. /\ SubSeq(s, i + 1, Len(s)) \in Seq(S) /\ Len(SubSeq(s, i + 1, Len(s))) = Len(s) - i
      /\ \A j \in 1..(Len(s) - i) : SubSeq(s, i + 1, Len(s))[j] = s[i + j]
  BY <1>1
<1> DEFINE a == SubSeq(s, 1, i - 1)
           b == SubSeq(s, i + 1, Len(s))
<1>4. RemoveAt(s, i) = a \o b
  BY DEF RemoveAt
<1> HIDE DEF a, b
<1>5. /\ a \in Seq(S) /\ Len(a) = i - 1 /\ \A j \in 1..(i - 1) : a[j] = s[j]
      /\ b \in Seq(S) /\ Len(b) = Len(s) - i /\ \A j \in 1..(Len(s) - i) : b[j] = s[i + j]
  BY <1>2, <1>3 DEF a, b
<1>6. a \o b \in Seq(S) /\ Len(a \o b) = Len(s) - 1
  BY <1>1, <1>5
<1>7. ASSUME NEW j \in 1..(Len(s) - 1)
      PROVE (a \o b)[j] = IF j < i THEN s[j] ELSE s[j + 1]
  <2>1. CASE j < i
    BY <1>1, <1>5, <2>1
  <2>2. CASE j >= i
    <3>1. (a \o b)[j] = b[j - (i - 1)]
      BY <1>1, <1>5, <2>2, SMTT(30)
    <3>2. j - (i - 1) \in 1..(Len(s) - i) /\ i + (j - (i - 1)) = j + 1
      BY <1>1, <2>2
    <3>3. QED
      BY <1>5, <2>2, <3>1, <3>2
  <2>3. j < i \/ j >= i
    BY <1>1, <1>7
  <2>4. QED
    BY <2>1, <2>2, <2>3
<1>8. QED
  BY <1>4, <1>6, <1>7

\* What is left of a list without repetitions.
LEMMA WithoutOne ==
    ASSUME NEW S, NEW s \in Seq(S), NEW i \in DOMAIN s
    PROVE /\ \A x \in ToSet(s) : x # s[i] => x \in ToSet(RemoveAt(s, i))
          /\ ToSet(RemoveAt(s, i)) \subseteq ToSet(s)
          /\ Distinct(s) => Distinct(RemoveAt(s, i)) /\ s[i] \notin ToSet(RemoveAt(s, i))
          /\ DistinctIds(s) => /\ DistinctIds(RemoveAt(s, i))
                               /\ \A x \in ToSet(RemoveAt(s, i)) : x.id # s[i].id
<1> DEFINE t == RemoveAt(s, i)
           from(j) == IF j < i THEN j ELSE j + 1
<1>1. /\ t \in Seq(S) /\ Len(t) = Len(s) - 1
      /\ \A j \in 1..(Len(s) - 1) : t[j] = IF j < i THEN s[j] ELSE s[j + 1]
  BY WithoutAt
<1>2. i \in 1..Len(s) /\ DOMAIN s = 1..Len(s) /\ Len(s) \in Nat
  OBVIOUS
<1> HIDE DEF t
<1>3. DOMAIN t = 1..(Len(s) - 1)
  BY <1>1
<1>4. \A j \in DOMAIN t : from(j) \in DOMAIN s /\ from(j) # i /\ t[j] = s[from(j)]
  BY <1>1, <1>2, <1>3
<1>5. \A j, k \in DOMAIN t : from(j) = from(k) => j = k
  BY <1>2, <1>3
<1>6. ASSUME NEW k \in DOMAIN s, k # i PROVE \E j \in DOMAIN t : t[j] = s[k]
  <2>1. CASE k < i
    <3>1. k \in 1..(Len(s) - 1)
      BY <1>2, <2>1
    <3>2. QED
      BY <1>1, <1>3, <2>1, <3>1
  <2>2. CASE k > i
    <3>1. k - 1 \in 1..(Len(s) - 1) /\ ~(k - 1 < i) /\ (k - 1) + 1 = k
      BY <1>2, <2>2
    <3>2. t[k - 1] = s[k]
      BY <1>1, <3>1
    <3>3. QED
      BY <1>3, <3>1, <3>2
  <2>3. QED
    BY <1>2, <1>6, <2>1, <2>2
<1> HIDE DEF from
<1>7. \A x \in ToSet(s) : x # s[i] => x \in ToSet(t)
  BY <1>6 DEF ToSet
<1>8. ToSet(t) \subseteq ToSet(s)
  BY <1>4 DEF ToSet
<1>9. Distinct(s) => Distinct(t) /\ s[i] \notin ToSet(t)
  BY <1>4, <1>5 DEF Distinct, ToSet
<1>10. DistinctIds(s) => DistinctIds(t) /\ \A x \in ToSet(t) : x.id # s[i].id
  BY <1>4, <1>5 DEF DistinctIds, ToSet
<1>11. QED
  BY <1>7, <1>8, <1>9, <1>10 DEF t

\* Numbers have a first one: their intervals are finite sets.
LEMMA FirstOf ==
    ASSUME NEW I \in SUBSET Nat, I # {}
    PROVE Min(I) \in I
<1> DEFINE T == {1..k : k \in I}
<1>1. T \subseteq FiniteSubsetsOf(Nat) /\ T # {}
  <2>1. \A k \in I : (1..k) \in SUBSET Nat /\ IsFiniteSet(1..k)
    BY FS_Interval
  <2>2. QED
    BY <2>1 DEF FiniteSubsetsOf
<1>2. PICK t \in T : \A u \in T : ~(<<u, t>> \in StrictSubsetOrdering(Nat))
  BY <1>1, FS_StrictSubsetOrderingWellFounded, WFMin
<1>3. PICK x \in I : t = 1..x
  BY <1>2
<1>4. ASSUME NEW y \in I PROVE x <= y
  <2>1. SUFFICES ASSUME y < x PROVE FALSE
    OBVIOUS
  <2>2. (1..y) \in T /\ (1..y) \in SUBSET Nat /\ (1..x) \in SUBSET Nat
    OBVIOUS
  <2>3. (1..y) \subseteq (1..x) /\ x \in 1..x /\ x \notin 1..y
    BY <2>1
  <2>4. <<1..y, 1..x>> \in StrictSubsetOrdering(Nat)
    BY <2>2, <2>3 DEF StrictSubsetOrdering
  <2>5. QED
    BY <1>2, <1>3, <2>2, <2>4
<1>5. QED
  BY <1>4 DEF Min

LEMMA RemovesFirst ==
    ASSUME NEW S, NEW s \in Seq(S), NEW e
    PROVE /\ RemoveFirst(s, e) \in Seq(S)
          /\ Distinct(s) => /\ Distinct(RemoveFirst(s, e))
                            /\ ToSet(RemoveFirst(s, e)) = ToSet(s) \ {e}
<1> DEFINE I == {i \in 1..Len(s) : s[i] = e}
<1>1. CASE I = {}
  <2>1. RemoveFirst(s, e) = s
    BY <1>1 DEF RemoveFirst
  <2>2. e \notin ToSet(s)
    BY <1>1 DEF ToSet
  <2>3. QED
    BY <2>1, <2>2
<1>2. CASE I # {}
  <2>1. Min(I) \in I
    <3>1. I \in SUBSET Nat
      OBVIOUS
    <3>2. QED
      BY <1>2, <3>1, FirstOf
  <2>2. RemoveFirst(s, e) = RemoveAt(s, Min(I))
    BY <1>2 DEF RemoveFirst, SelectInSeq
  <2>3. Min(I) \in DOMAIN s /\ s[Min(I)] = e
    BY <2>1
  <2> HIDE DEF I
  <2>4. QED
    BY <2>2, <2>3, WithoutAt, WithoutOne
<1>3. QED
  BY <1>1, <1>2

-----------------------------------------------------------------------------
(* The stored windows *)

StoredWindows == [id : Windows, docs : SUBSET Files]

Ids(s) == {x.id : x \in ToSet(s)}

LEMMA RemovedEntry ==
    ASSUME stored \in Seq(StoredWindows), DistinctIds(stored), NEW id
    PROVE /\ Removed(id) \in Seq(StoredWindows)
          /\ DistinctIds(Removed(id))
          /\ ToSet(Removed(id)) = {x \in ToSet(stored) : x.id # id}
<1> DEFINE I == {i \in 1..Len(stored) : stored[i].id = id}
<1>1. CASE I = {}
  <2>1. Removed(id) = stored
    BY <1>1 DEF Removed, RemoveFirstMatch
  <2>2. \A x \in ToSet(stored) : x.id # id
    BY <1>1 DEF ToSet
  <2>3. QED
    BY <2>1, <2>2
<1>2. CASE I # {}
  <2>1. Min(I) \in I
    <3>1. I \in SUBSET Nat
      OBVIOUS
    <3>2. QED
      BY <1>2, <3>1, FirstOf
  <2>2. Removed(id) = RemoveAt(stored, Min(I))
    BY <1>2 DEF Removed, RemoveFirstMatch, SelectInSeq
  <2>3. Min(I) \in DOMAIN stored /\ stored[Min(I)].id = id
    BY <2>1
  <2> HIDE DEF I
  <2>4. QED
    BY <2>2, <2>3, WithoutAt, WithoutOne
<1>3. QED
  BY <1>1, <1>2

\* clearInactiveSessions takes an entry away, but none of an open window.
LEMMA ClearedEntry ==
    ASSUME stored \in Seq(StoredWindows), DistinctIds(stored), ~(StoredIds \subseteq Live),
           NEW t, t = RemoveFirstMatch(stored, LAMBDA s : s.id \notin Live)
    PROVE /\ t \in Seq(StoredWindows) /\ DistinctIds(t)
          /\ Live \cap StoredIds \subseteq Ids(t)
<1> DEFINE I == {i \in 1..Len(stored) : stored[i].id \notin Live}
<1>1. I # {}
  BY DEF StoredIds, ToSet
<1>2. Min(I) \in I
  <2>1. I \in SUBSET Nat
    OBVIOUS
  <2>2. QED
    BY <1>1, <2>1, FirstOf
<1>3. t = RemoveAt(stored, Min(I))
  BY <1>1 DEF RemoveFirstMatch, SelectInSeq
<1>4. Min(I) \in DOMAIN stored /\ stored[Min(I)].id \notin Live
  BY <1>2
<1> HIDE DEF I
<1>5. t \in Seq(StoredWindows) /\ DistinctIds(t)
  BY <1>3, <1>4, WithoutAt, WithoutOne
<1>6. \A x \in ToSet(stored) : x.id \in Live => x \in ToSet(t)
  BY <1>3, <1>4, WithoutOne
<1>7. QED
  BY <1>5, <1>6 DEF StoredIds, Ids

LEMMA SavedEntry ==
    ASSUME stored \in Seq(StoredWindows), DistinctIds(stored),
           NEW id \in Windows, NEW docs \in SUBSET Files
    PROVE /\ Saved(id, docs) \in Seq(StoredWindows)
          /\ DistinctIds(Saved(id, docs))
          /\ Ids(Saved(id, docs)) = StoredIds
          /\ \A x \in ToSet(stored) : x.id # id => x \in ToSet(Saved(id, docs))
          /\ id \in StoredIds => [id |-> id, docs |-> docs] \in ToSet(Saved(id, docs))
<1> DEFINE t == Saved(id, docs)
<1>1. /\ DOMAIN t = DOMAIN stored
      /\ \A i \in DOMAIN stored :
            /\ stored[i].id = id => t[i] = [id |-> id, docs |-> docs]
            /\ stored[i].id # id => t[i] = stored[i]
            /\ t[i] \in StoredWindows /\ t[i].id = stored[i].id
  <2>1. \A i \in DOMAIN stored : stored[i] \in StoredWindows
    OBVIOUS
  <2>2. \A x \in StoredWindows :
           /\ [x EXCEPT !.docs = docs] = [id |-> x.id, docs |-> docs]
           /\ [id |-> x.id, docs |-> docs] \in StoredWindows
    BY DEF StoredWindows
  <2>3. DOMAIN t = DOMAIN stored
    BY DEF Saved
  <2>4. \A i \in DOMAIN stored :
           t[i] = IF stored[i].id = id THEN [stored[i] EXCEPT !.docs = docs] ELSE stored[i]
    BY DEF Saved
  <2> HIDE DEF t
  <2>5. ASSUME NEW i \in DOMAIN stored
        PROVE /\ stored[i].id = id => t[i] = [id |-> id, docs |-> docs]
              /\ stored[i].id # id => t[i] = stored[i]
              /\ t[i] \in StoredWindows /\ t[i].id = stored[i].id
    <3>1. stored[i] \in StoredWindows
      BY <2>1
    <3>2. CASE stored[i].id = id
      <4> DEFINE x == stored[i]
                 e == [id |-> id, docs |-> docs]
      <4>1. t[i] = [x EXCEPT !.docs = docs]
        BY <2>4, <3>2
      <4> HIDE DEF x
      <4>2. [x EXCEPT !.docs = docs] = [id |-> x.id, docs |-> docs]
        BY <2>2, <3>1 DEF x
      <4>3. x.id = id
        BY <3>2 DEF x
      <4>4. e \in StoredWindows /\ e.id = id
        BY DEF StoredWindows
      <4>5. t[i] = e
        BY <4>1, <4>2, <4>3
      <4> HIDE DEF e
      <4>6. t[i] \in StoredWindows /\ t[i].id = stored[i].id
        BY <3>2, <4>4, <4>5
      <4>7. QED
        BY <4>5, <4>6, <3>2 DEF e
    <3>3. CASE stored[i].id # id
      BY <2>4, <3>1, <3>3
    <3>4. QED
      BY <3>2, <3>3
  <2>6. QED
    BY <2>3, <2>5
<1>2. t \in Seq(StoredWindows)
  BY <1>1 DEF Saved
<1> HIDE DEF t
<1>3. DistinctIds(t) /\ Ids(t) = StoredIds
  BY <1>1 DEF DistinctIds, Ids, StoredIds, ToSet
<1>4. \A x \in ToSet(stored) : x.id # id => x \in ToSet(t)
  BY <1>1 DEF ToSet
<1>5. id \in StoredIds => [id |-> id, docs |-> docs] \in ToSet(t)
  BY <1>1 DEF StoredIds, ToSet
<1>6. QED
  BY <1>2, <1>3, <1>4, <1>5 DEF t

LEMMA AddedEntry ==
    ASSUME stored \in Seq(StoredWindows), DistinctIds(stored),
           NEW id \in Windows, id \notin StoredIds
    PROVE /\ Added(id) \in Seq(StoredWindows)
          /\ DistinctIds(Added(id))
          /\ Ids(Added(id)) = StoredIds \cup {id}
          /\ ToSet(stored) \subseteq ToSet(Added(id))
<1> DEFINE e == [id |-> id, docs |-> {}]
           t == Append(stored, e)
<1>1. Added(id) = t
  BY DEF Added
<1>2. e \in StoredWindows /\ e.id = id
  BY DEF StoredWindows
<1> HIDE DEF e
<1>3. /\ t \in Seq(StoredWindows) /\ DOMAIN t = 1..(Len(stored) + 1)
      /\ t[Len(stored) + 1] = e /\ \A i \in DOMAIN stored : t[i] = stored[i] /\ i \in DOMAIN t
  BY <1>2
<1>4. \A i \in DOMAIN t : i \in DOMAIN stored \/ i = Len(stored) + 1
  BY <1>3
<1>5. Len(stored) + 1 \in DOMAIN t
  BY <1>3
<1> DEFINE last == Len(stored) + 1
<1> HIDE DEF t, last
<1>6. ToSet(t) = ToSet(stored) \cup {e}
  BY <1>3, <1>4, <1>5 DEF ToSet, last
<1>7. \A i \in DOMAIN stored : stored[i].id # id
  BY DEF StoredIds, ToSet
<1>8. DistinctIds(t)
  BY <1>2, <1>3, <1>4, <1>7 DEF DistinctIds
<1>9. Ids(t) = StoredIds \cup {id}
  BY <1>2, <1>6 DEF Ids, StoredIds
<1>10. QED
  BY <1>1, <1>3, <1>6, <1>8, <1>9

-----------------------------------------------------------------------------
(* The inductive invariant *)

Documents ==
    [docs : SUBSET Files, current : Files \cup {None}, loading : SUBSET Files,
     frozen : BOOLEAN]

\* What a window would be stored as.
Stored(w) == [id |-> w, docs |-> win[w].docs]

\* Every window is once in the list, and has one entry in the session file; a closed one
\* is no longer in the list.
Lists == Distinct(order) /\ DistinctIds(stored) /\ Live \cap dying = {}

\* Before its first event the process has one window, which is stored; then the stored
\* windows are the open ones; and what was open at the end stays stored, because a window
\* that is opened after that has another id.
Phases ==
    /\ phase = "down" => order = <<>> /\ dying = {}
    /\ phase = "clearing" => order # <<>> /\ Live \subseteq StoredIds
    /\ phase = "run" => order # <<>> /\ Live = StoredIds
    /\ phase \in {"clearing", "run"} => ~exitRequested
    /\ phase \in {"quitting", "down"} => left \subseteq ToSet(stored)
    /\ phase = "quitting" => \A l \in left : l.id \notin Live

\* An exit is prepared while the application runs; only the windows that are part of it
\* are frozen, and those that are done are stored as they are.
Preparation ==
    /\ exit # "idle" => phase = "run"
    /\ \A w \in Windows : win[w].frozen => exit # "idle" /\ w \in Live
    /\ exit = "preparing" => ToSet(toPrepare) \subseteq Live
    /\ \A w \in Live : \/ exit = "idle"
                       \/ exit = "preparing" /\ w \in ToSet(toPrepare)
                       \/ win[w].frozen /\ Stored(w) \in ToSet(stored)

SessionInv == TypeOK /\ Lists /\ Phases /\ Preparation

LEMMA ReverseOf ==
    ASSUME NEW S, NEW s \in Seq(S)
    PROVE Reverse(s) \in Seq(S) /\ ToSet(Reverse(s)) = ToSet(s)
<1> DEFINE t == Reverse(s)
           n == Len(s)
           at(i) == (n - i) + 1
<1>1. n \in Nat /\ DOMAIN s = 1..n
  OBVIOUS
<1>2. DOMAIN t = 1..n /\ \A i \in 1..n : t[i] = s[at(i)]
  BY DEF Reverse
<1> HIDE DEF n
<1>3. \A i \in 1..n : at(i) \in 1..n /\ at(at(i)) = i
  BY <1>1
<1>4. t \in Seq(S)
  <2>1. \A i \in 1..n : s[at(i)] \in S
    BY <1>1, <1>3
  <2>2. t = [i \in 1..n |-> s[at(i)]]
    BY DEF Reverse, n
  <2> HIDE DEF t, at
  <2>3. QED
    BY <1>1, <2>1, <2>2
<1> HIDE DEF t, at
<1>5. ToSet(t) = ToSet(s)
  BY <1>1, <1>2, <1>3 DEF ToSet
<1>6. QED
  BY <1>4, <1>5 DEF t

LEMMA EmptyList == ToSet(<<>>) = {} /\ Distinct(<<>>) /\ DistinctIds(<<>>)
BY DEF ToSet, Distinct, DistinctIds

-----------------------------------------------------------------------------
(* Steps within the windows *)

\* A step that neither freezes a window nor touches the documents of a frozen one.
QuietWin ==
    /\ win' \in [Windows -> Documents]
    /\ \A w \in Windows : /\ win'[w].frozen = win[w].frozen
                          /\ win[w].frozen => win'[w].docs = win[w].docs

LEMMA WinType ==
    ASSUME TypeOK
    PROVE /\ win \in [Windows -> Documents] /\ order \in Seq(Windows)
          /\ stored \in Seq(StoredWindows) /\ left \subseteq StoredWindows
          /\ Live \subseteq Windows /\ dying \subseteq Windows
          /\ Empty \in Documents
<1>1. order \in Seq(Windows) /\ dying \subseteq Windows
  BY DEF TypeOK
<1>2. Live \subseteq Windows
  BY <1>1 DEF Live, ToSet
<1>3. win \in [Windows -> Documents]
  BY DEF TypeOK, Documents
<1>4. stored \in Seq(StoredWindows) /\ left \subseteq StoredWindows
  BY DEF TypeOK, StoredWindows
<1>5. Empty \in Documents
  BY DEF Empty, Documents
<1>6. QED
  BY <1>1, <1>2, <1>3, <1>4, <1>5

LEMMA ToTopType ==
    ASSUME TypeOK, NEW w \in Windows
    PROVE ToTop(w) \in Seq(Windows)
<1>1. RemoveFirst(active, w) \in Seq(Windows)
  BY RemovesFirst DEF TypeOK
<1> DEFINE rest == RemoveFirst(active, w)
<1> HIDE DEF rest
<1>2. <<w>> \o rest \in Seq(Windows)
  BY <1>1 DEF rest
<1>3. QED
  BY <1>2 DEF ToTop, rest

LEMMA LoadFileQuiet ==
    ASSUME TypeOK, NEW w \in Windows, NEW f \in Files, LoadFile(w, f)
    PROVE QuietWin /\ active' \in Seq(Windows)
<1>1. win \in [Windows -> Documents] /\ active \in Seq(Windows)
  BY WinType DEF TypeOK
<1>2. CASE win[w].frozen
  BY <1>1, <1>2 DEF LoadFile, QuietWin
<1>3. CASE ~win[w].frozen /\ win' = Opened(w, f) /\ UNCHANGED active
  <2> DEFINE d == [win[w] EXCEPT !.docs = @ \cup {f}, !.current = f, !.loading = @ \cup {f}]
  <2>1. d \in Documents /\ d.frozen = win[w].frozen
    BY <1>1 DEF Documents
  <2>2. win' = [win EXCEPT ![w] = d]
    BY <1>1, <1>3 DEF Opened, Documents
  <2> HIDE DEF d
  <2>3. QED
    BY <1>1, <1>3, <2>1, <2>2 DEF QuietWin
<1>4. ASSUME NEW v \in Viewing(f), win' = [win EXCEPT ![v].current = f], active' = ToTop(v)
      PROVE QuietWin /\ active' \in Seq(Windows)
  <2>1. v \in Windows
    BY <1>4, WinType DEF Viewing
  <2>2. [win[v] EXCEPT !.current = f] \in Documents
    BY <1>1, <2>1 DEF Documents
  <2>3. QuietWin
    BY <1>1, <1>4, <2>1, <2>2 DEF QuietWin, Documents
  <2>4. QED
    BY <1>4, <2>1, <2>3, ToTopType
<1>5. QED
  BY <1>2, <1>3, <1>4 DEF LoadFile

LEMMA CloseTabQuiet ==
    ASSUME TypeOK, NEW w \in Windows, NEW f, CloseTab(w, f)
    PROVE QuietWin
<1>1. win \in [Windows -> Documents]
  BY WinType
<1>2. CASE UNCHANGED win
  BY <1>1, <1>2 DEF QuietWin
<1>3. CASE ~win[w].frozen /\ f \in win[w].docs
  <2> DEFINE docs == win[w].docs \ {f}
  <2>1. PICK c \in IF win[w].current # f THEN {win[w].current}
                   ELSE IF docs = {} THEN {None} ELSE docs :
           win' = [win EXCEPT ![w].docs = docs, ![w].current = c, ![w].loading = @ \ {f}]
    BY <1>3 DEF CloseTab
  <2>2. win[w] \in Documents
    BY <1>1
  <2>3. c \in Files \cup {None} /\ docs \in SUBSET Files
    BY <2>1, <2>2 DEF Documents
  <2> DEFINE d == [win[w] EXCEPT !.docs = docs, !.current = c, !.loading = @ \ {f}]
  <2>4. d \in Documents /\ d.frozen = win[w].frozen
    BY <2>2, <2>3 DEF Documents
  <2>5. win' = [win EXCEPT ![w] = d]
    BY <1>1, <2>1, <2>2 DEF Documents
  <2> HIDE DEF d, docs
  <2>6. QED
    BY <1>1, <1>3, <2>4, <2>5 DEF QuietWin
<1>4. QED
  BY <1>2, <1>3 DEF CloseTab

LEMMA QuietKeeps ==
    ASSUME SessionInv, QuietWin,
           UNCHANGED <<phase, order, dying, exit, toPrepare, exitRequested, stored, left>>
    PROVE Lists' /\ Phases' /\ Preparation'
<1>1. Live' = Live /\ StoredIds' = StoredIds /\ Live \subseteq Windows
  BY WinType DEF SessionInv, Live, StoredIds
<1>2. Lists'
  BY <1>1 DEF SessionInv, Lists
<1>3. Phases'
  BY <1>1 DEF SessionInv, Phases
<1>4. \A w \in Live : win[w].frozen => Stored(w)' = Stored(w)
  BY <1>1 DEF Stored, QuietWin
<1>5. Preparation'
  BY <1>1, <1>4 DEF SessionInv, Preparation, QuietWin
<1>6. QED
  BY <1>2, <1>3, <1>5

\* The steps that only change the documents of windows with input, or a dialog.
LEMMA QuietSteps ==
    ASSUME SessionInv,
           \/ FileChosen \/ AlertDismissed
           \/ \E w \in Windows : UserOpens(w) \/ \E f \in Files :
                 UserClosesTab(w, f) \/ LoadEnds(w, f) \/ Switch(w, f)
    PROVE SessionInv'
<1>1. TypeOK /\ win \in [Windows -> Documents]
  BY WinType DEF SessionInv
<1> DEFINE D == [kind : {"open", "alert"}, window : Windows, about : Files \cup {None}]
<1>2. modal # <<>> => Tail(modal) \in Seq(D) /\ Head(modal).window \in Windows
  <2>1. modal \in Seq(D) /\ \A d \in D : d.window \in Windows
    BY <1>1 DEF TypeOK
  <2> HIDE DEF D
  <2>2. QED
    BY <2>1
<1>3. CASE FileChosen
  <2>1. PICK f \in Files : LoadFile(Head(modal).window, f)
    BY <1>3 DEF FileChosen
  <2>2. QuietWin /\ active' \in Seq(Windows)
    BY <1>1, <1>2, <1>3, <2>1, LoadFileQuiet DEF FileChosen
  <2>3. TypeOK'
    BY <1>1, <1>2, <1>3, <2>2 DEF FileChosen, TypeOK, QuietWin, Documents, counts
  <2>4. QED
    BY <1>3, <2>2, <2>3, QuietKeeps DEF FileChosen, SessionInv
<1>4. CASE AlertDismissed
  <2>1. QuietWin
    BY <1>1, <1>2, <1>4, CloseTabQuiet DEF AlertDismissed
  <2>2. TypeOK'
    BY <1>1, <1>2, <1>4, <2>1 DEF AlertDismissed, TypeOK, QuietWin, Documents, counts
  <2>3. QED
    BY <1>4, <2>1, <2>2, QuietKeeps DEF AlertDismissed, SessionInv
<1>5. ASSUME NEW w \in Windows, UserOpens(w) PROVE SessionInv'
  <2> DEFINE d == [kind |-> "open", window |-> w, about |-> None]
  <2>1. QuietWin
    BY <1>1, <1>5 DEF UserOpens, QuietWin
  <2>2. d \in D /\ modal \in Seq(D)
    BY <1>1 DEF TypeOK
  <2> HIDE DEF d, D
  <2>3. <<d>> \o modal \in Seq(D)
    BY <2>2
  <2>4. modal' = <<d>> \o modal
    BY <1>5 DEF UserOpens, d
  <2>5. TypeOK'
    BY <1>1, <1>5, <2>3, <2>4 DEF UserOpens, TypeOK, D
  <2>6. QED
    BY <1>5, <2>1, <2>5, QuietKeeps DEF UserOpens, SessionInv
<1>6. ASSUME NEW w \in Windows, NEW f \in Files, UserClosesTab(w, f) PROVE SessionInv'
  <2>1. QuietWin
    BY <1>1, <1>6, CloseTabQuiet DEF UserClosesTab
  <2>2. TypeOK'
    BY <1>1, <1>6, <2>1 DEF UserClosesTab, TypeOK, QuietWin, Documents, counts
  <2>3. QED
    BY <1>6, <2>1, <2>2, QuietKeeps DEF UserClosesTab, SessionInv
<1>7. ASSUME NEW w \in Windows, NEW f \in Files, LoadEnds(w, f) PROVE SessionInv'
  <2> DEFINE loaded == [win EXCEPT ![w].loading = @ \ {f}]
             d == [kind |-> "alert", window |-> w, about |-> f]
  <2>1. win' = loaded => QuietWin
    BY <1>1 DEF QuietWin, Documents
  <2>2. win' = loaded \/ CloseTab(w, f)
    BY <1>7 DEF LoadEnds
  <2>3. QuietWin
    BY <1>1, <2>1, <2>2, CloseTabQuiet
  <2>4. d \in D /\ modal \in Seq(D)
    BY <1>1 DEF TypeOK
  <2>5. modal' = modal \/ modal' = <<d>> \o modal
    BY <1>7 DEF LoadEnds
  <2> HIDE DEF d, D
  <2>6. modal' \in Seq(D)
    <3>1. <<d>> \o modal \in Seq(D)
      BY <2>4
    <3>2. QED
      BY <2>4, <2>5, <3>1
  <2>7. UNCHANGED <<phase, args, order, dying, active, exit, purpose, toPrepare, exitRequested,
                    syncFailed, stored, again, left, counts>>
    BY <1>7 DEF LoadEnds
  <2>8. TypeOK'
    BY <1>1, <2>3, <2>6, <2>7 DEF TypeOK, QuietWin, Documents, D
  <2>9. QED
    BY <2>3, <2>7, <2>8, QuietKeeps DEF SessionInv
<1>8. ASSUME NEW w \in Windows, NEW f \in Files, Switch(w, f) PROVE SessionInv'
  <2>1. QuietWin
    BY <1>1, <1>8 DEF Switch, QuietWin, Documents
  <2>2. active' \in Seq(Windows)
    BY <1>1, <1>8, ToTopType DEF Switch
  <2>3. TypeOK'
    BY <1>1, <1>8, <2>1, <2>2 DEF Switch, TypeOK, QuietWin, Documents, counts
  <2>4. QED
    BY <1>8, <2>1, <2>3, QuietKeeps DEF Switch, SessionInv
<1>9. QED
  BY <1>3, <1>4, <1>5, <1>6, <1>7, <1>8

-----------------------------------------------------------------------------
(* Windows that come and go *)

\* A new window has an id that is neither open nor stored.
LEMMA NewWindowKeeps ==
    ASSUME SessionInv, exit = "idle", phase \in {"run", "quitting"},
           NEW id \in Windows, NewWindow(id),
           NEW d \in Documents, ~d.frozen, win' = [win EXCEPT ![id] = d],
           UNCHANGED <<phase, args, dying, modal, exit, purpose, toPrepare, exitRequested,
                       syncFailed, again, left>>
    PROVE SessionInv'
<1>1. /\ win \in [Windows -> Documents] /\ order \in Seq(Windows)
      /\ stored \in Seq(StoredWindows) /\ left \subseteq StoredWindows
      /\ Distinct(order) /\ DistinctIds(stored) /\ Live \subseteq Windows
  BY WinType DEF SessionInv, Lists
<1>2. id \notin Live /\ id \notin dying /\ id \notin StoredIds
  BY DEF NewWindow, Fresh
<1>3. /\ stored' \in Seq(StoredWindows) /\ DistinctIds(stored')
      /\ Ids(stored') = StoredIds \cup {id} /\ ToSet(stored) \subseteq ToSet(stored')
  BY <1>1, <1>2, AddedEntry DEF NewWindow
<1>4. StoredIds' = StoredIds \cup {id}
  BY <1>3 DEF Ids, StoredIds
<1>5. /\ order' \in Seq(Windows) /\ Distinct(order') /\ order' # <<>>
      /\ ToSet(order') = ToSet(order) \cup {id}
  <2> DEFINE t == Append(order, id)
             last == Len(order) + 1
  <2>1. /\ t \in Seq(Windows) /\ DOMAIN t = 1..last /\ last \in DOMAIN t
        /\ t[last] = id /\ t # <<>>
        /\ \A i \in DOMAIN order : t[i] = order[i] /\ i \in DOMAIN t
        /\ \A i \in DOMAIN t : i \in DOMAIN order \/ i = last
    BY <1>1
  <2> HIDE DEF t, last
  <2>2. ToSet(t) = ToSet(order) \cup {id}
    BY <2>1 DEF ToSet
  <2>3. \A i \in DOMAIN order : order[i] # id
    BY <1>2 DEF Live, ToSet
  <2>4. Distinct(t)
    BY <1>1, <2>1, <2>3 DEF Distinct
  <2>5. QED
    BY <2>1, <2>2, <2>4 DEF t, NewWindow
<1>6. Live' = Live \cup {id}
  BY <1>5 DEF Live
<1>7. active' \in Seq(Windows)
  BY DEF NewWindow, SessionInv, TypeOK
<1>8. win' \in [Windows -> Documents]
  BY <1>1
<1>9. TypeOK'
  BY <1>3, <1>5, <1>7, <1>8 DEF SessionInv, TypeOK, Documents, StoredWindows
<1>10. Lists'
  BY <1>2, <1>3, <1>5, <1>6 DEF SessionInv, Lists
<1>11. Phases'
  <2>1. phase = "quitting" => \A l \in left : l.id # id
    <3>1. phase = "quitting" => left \subseteq ToSet(stored)
      BY DEF SessionInv, Phases
    <3>2. phase = "quitting" => \A l \in left : l.id \in StoredIds
      BY <3>1 DEF StoredIds
    <3>3. QED
      BY <1>2, <3>2
  <2>2. QED
    BY <1>3, <1>4, <1>5, <1>6, <2>1 DEF SessionInv, Phases
<1>12. Preparation'
  BY <1>1, <1>6 DEF SessionInv, Preparation
<1>13. QED
  BY <1>9, <1>10, <1>11, <1>12 DEF SessionInv

LEMMA UserNewWindowStep ==
    ASSUME SessionInv, UserNewWindow
    PROVE SessionInv'
<1>1. PICK id \in Windows : NewWindow(id) /\ win' = [win EXCEPT ![id] = Empty]
  BY DEF UserNewWindow
<1>2. Empty \in Documents /\ ~Empty.frozen
  BY DEF Empty, Documents
<1>3. QED
  BY <1>1, <1>2, NewWindowKeeps DEF UserNewWindow

LEMMA ForwardedStep ==
    ASSUME SessionInv, NEW f \in Files, Forwarded(f)
    PROVE SessionInv'
<1>1. /\ TypeOK /\ win \in [Windows -> Documents] /\ active \in Seq(Windows)
      /\ phase \in {"run", "quitting"}
  BY WinType DEF SessionInv, TypeOK, Forwarded, EventLoop, Running
<1>2. UNCHANGED <<phase, args, dying, modal, exit, purpose, toPrepare, exitRequested,
                  syncFailed, again, left>>
  BY DEF Forwarded
<1>3. CASE exit # "idle" /\ UNCHANGED <<order, win, active, stored>>
  <2>1. QuietWin
    BY <1>1, <1>3 DEF QuietWin
  <2>2. TypeOK'
    BY <1>1, <1>2, <1>3 DEF TypeOK
  <2>3. QED
    BY <1>2, <1>3, <2>1, <2>2, QuietKeeps DEF SessionInv
<1>4. CASE active # <<>> /\ LoadFile(Head(active), f) /\ UNCHANGED <<order, stored>>
  <2>1. Head(active) \in Windows
    BY <1>1, <1>4
  <2>2. QuietWin /\ active' \in Seq(Windows)
    BY <1>1, <1>4, <2>1, LoadFileQuiet
  <2>3. TypeOK'
    BY <1>1, <1>2, <1>4, <2>2 DEF TypeOK, QuietWin, Documents
  <2>4. QED
    BY <1>2, <1>4, <2>2, <2>3, QuietKeeps DEF SessionInv
<1>5. ASSUME exit = "idle", NEW id \in Windows, NewWindow(id), win' = Opened(id, f)
      PROVE SessionInv'
  <2> DEFINE d == [win[id] EXCEPT !.docs = @ \cup {f}, !.current = f, !.loading = @ \cup {f}]
  <2>1. d \in Documents /\ d.frozen = win[id].frozen
    BY <1>1 DEF Documents
  <2>2. win' = [win EXCEPT ![id] = d]
    BY <1>1, <1>5 DEF Opened, Documents
  <2> HIDE DEF d
  <2>3. ~win[id].frozen
    BY <1>5 DEF SessionInv, Preparation
  <2>4. QED
    BY <1>1, <1>2, <1>5, <2>1, <2>2, <2>3, NewWindowKeeps
<1>6. QED
  BY <1>3, <1>4, <1>5 DEF Forwarded

\* The windows that are stored, and how many.
LEMMA StoredCount ==
    ASSUME stored \in Seq(StoredWindows), DistinctIds(stored), NEW w \in StoredIds
    PROVE Removable(w) <=> \E v \in StoredIds : v # w
<1>1. PICK i \in DOMAIN stored : stored[i].id = w
  BY DEF StoredIds, ToSet
<1>2. DOMAIN stored = 1..Len(stored) /\ Len(stored) \in Nat
  OBVIOUS
<1>3. ASSUME NEW v \in StoredIds, v # w PROVE Len(stored) > 1
  <2>1. PICK j \in DOMAIN stored : stored[j].id = v
    BY DEF StoredIds, ToSet
  <2>2. i # j
    BY <1>1, <1>3, <2>1
  <2>3. QED
    BY <1>2, <2>2
<1>4. ASSUME Len(stored) > 1 PROVE \E v \in StoredIds : v # w
  <2>1. PICK j \in DOMAIN stored : j # i
    <3>1. 1 \in DOMAIN stored /\ 2 \in DOMAIN stored
      BY <1>2, <1>4
    <3>2. QED
      BY <3>1
  <2>2. stored[j].id \in StoredIds /\ stored[j].id # w
    BY <1>1, <2>1 DEF StoredIds, ToSet, DistinctIds
  <2>3. QED
    BY <2>2
<1>5. QED
  BY <1>3, <1>4 DEF Removable

\* A window closes: the session forgets it, unless it is the last.
LEMMA ClosedKeeps ==
    ASSUME SessionInv, EventLoop, NEW w \in Live, ~win[w].frozen, Closed(w, AfterClose(w)),
           IF Live = {w} /\ phase = "run"
           THEN phase' = "quitting" /\ left' = {[id |-> w, docs |-> win[w].docs]}
           ELSE UNCHANGED <<phase, left>>,
           UNCHANGED <<args, active, modal, exit, purpose, toPrepare, exitRequested,
                       syncFailed, again, counts>>
    PROVE SessionInv'
<1>1. /\ win \in [Windows -> Documents] /\ order \in Seq(Windows)
      /\ stored \in Seq(StoredWindows) /\ left \subseteq StoredWindows
      /\ Distinct(order) /\ DistinctIds(stored) /\ Live \subseteq Windows
      /\ Live \cap dying = {} /\ Empty \in Documents /\ ~Empty.frozen
  BY WinType DEF SessionInv, Lists, Empty
<1>2. exit = "idle"
  BY DEF SessionInv, Preparation, EventLoop
<1>3. w \in Windows /\ win[w].docs \in SUBSET Files
  BY <1>1 DEF Documents
<1>4. /\ order' \in Seq(Windows) /\ Distinct(order') /\ Live' = Live \ {w}
  BY <1>1, RemovesFirst DEF Closed, Live
<1>5. /\ Removed(w) \in Seq(StoredWindows) /\ DistinctIds(Removed(w))
      /\ ToSet(Removed(w)) = {x \in ToSet(stored) : x.id # w}
  BY <1>1, RemovedEntry
<1>6. /\ Saved(w, win[w].docs) \in Seq(StoredWindows) /\ DistinctIds(Saved(w, win[w].docs))
      /\ \A x \in ToSet(stored) : x.id # w => x \in ToSet(Saved(w, win[w].docs))
      /\ w \in StoredIds => [id |-> w, docs |-> win[w].docs] \in ToSet(Saved(w, win[w].docs))
  BY <1>1, <1>3, SavedEntry
<1>7. /\ stored' \in Seq(StoredWindows) /\ DistinctIds(stored')
      /\ \A x \in ToSet(stored) : x.id # w => x \in ToSet(stored')
  BY <1>5, <1>6 DEF Closed, AfterClose
<1>8. win' = [win EXCEPT ![w] = Empty] /\ win' \in [Windows -> Documents]
      /\ dying' = dying \cup {w} /\ dying' \subseteq Windows
  BY <1>1, <1>3 DEF Closed, SessionInv, TypeOK
<1>9. Lists'
  BY <1>1, <1>4, <1>7, <1>8 DEF Lists
<1>10. Preparation'
  BY <1>1, <1>2, <1>8 DEF SessionInv, Preparation
<1>11. phase \in {"run", "quitting"}
  BY DEF EventLoop, Running
<1>12. CASE phase = "run"
  <2>1. Live = StoredIds /\ ~exitRequested
    BY <1>12 DEF SessionInv, Phases
  <2>2. Removable(w) <=> \E v \in Live : v # w
    BY <1>1, <2>1, StoredCount
  <2>3. CASE Live = {w}
    <3>1. phase' = "quitting" /\ left' = {[id |-> w, docs |-> win[w].docs]}
      BY <1>12, <2>3
    <3>2. stored' = Saved(w, win[w].docs)
      BY <2>2, <2>3 DEF Closed, AfterClose
    <3>3. left' \subseteq ToSet(stored') /\ left' \subseteq StoredWindows /\ Live' = {}
      BY <1>3, <1>4, <1>6, <2>1, <2>3, <3>1, <3>2 DEF StoredWindows
    <3>4. TypeOK'
      BY <1>4, <1>7, <1>8, <3>1, <3>3
      DEF SessionInv, TypeOK, Documents, StoredWindows, counts
    <3>5. Phases'
      BY <3>1, <3>3 DEF Phases
    <3>6. QED
      BY <1>9, <1>10, <3>4, <3>5 DEF SessionInv
  <2>4. CASE Live # {w}
    <3>1. UNCHANGED <<phase, left>>
      BY <2>4
    <3>2. PICK v \in Live : v # w
      BY <2>4
    <3>3. stored' = Removed(w)
      BY <2>1, <2>2, <3>2 DEF Closed, AfterClose
    <3>4. StoredIds' = Live'
      BY <1>4, <1>5, <2>1, <3>3 DEF StoredIds
    <3>5. order' # <<>>
      BY <1>4, <3>2, EmptyList DEF Live
    <3>6. TypeOK'
      BY <1>4, <1>7, <1>8, <3>1 DEF SessionInv, TypeOK, Documents, StoredWindows, counts
    <3>7. Phases'
      BY <1>12, <2>1, <3>1, <3>4, <3>5 DEF Phases
    <3>8. QED
      BY <1>9, <1>10, <3>6, <3>7 DEF SessionInv
  <2>5. QED
    BY <2>3, <2>4
<1>13. CASE phase = "quitting"
  <2>1. UNCHANGED <<phase, left>>
    BY <1>13
  <2>2. \A l \in left : l \in ToSet(stored) /\ l.id \notin Live
    BY <1>13 DEF SessionInv, Phases
  <2>3. left' \subseteq ToSet(stored')
    BY <1>7, <2>1, <2>2
  <2>4. TypeOK'
    BY <1>4, <1>7, <1>8, <2>1 DEF SessionInv, TypeOK, Documents, StoredWindows, counts
  <2>5. Phases'
    BY <1>4, <1>13, <2>1, <2>2, <2>3 DEF Phases
  <2>6. QED
    BY <1>9, <1>10, <2>4, <2>5 DEF SessionInv
<1>14. QED
  BY <1>11, <1>12, <1>13

LEMMA CloseSteps ==
    ASSUME SessionInv, NEW w \in Windows, UserClosesWindow(w) \/ QuitCloses(w)
    PROVE SessionInv'
<1>1. CASE UserClosesWindow(w)
  BY <1>1, ClosedKeeps DEF UserClosesWindow, Input
<1>2. CASE QuitCloses(w)
  BY <1>2, ClosedKeeps DEF QuitCloses
<1>3. QED
  BY <1>1, <1>2

\* A deleted window is not in the list any more.
LEMMA DeletedStep ==
    ASSUME SessionInv, NEW w \in Windows, Deleted(w)
    PROVE SessionInv'
<1>1. /\ win \in [Windows -> Documents] /\ active \in Seq(Windows) /\ w \notin Live
      /\ Empty \in Documents /\ Live \subseteq Windows /\ ~Empty.frozen
  BY WinType DEF Deleted, SessionInv, Lists, TypeOK, Empty
<1>2. /\ win' = [win EXCEPT ![w] = Empty] /\ dying' = dying \ {w}
      /\ UNCHANGED <<phase, args, order, modal, exit, purpose, toPrepare, exitRequested,
                     syncFailed, stored, again, left>>
  BY DEF Deleted
<1>3. active' \in Seq(Windows)
  BY <1>1, RemovesFirst DEF Deleted
<1>4. TypeOK'
  BY <1>1, <1>2, <1>3 DEF SessionInv, TypeOK, Documents
<1>5. Live' = Live /\ StoredIds' = StoredIds
  BY <1>2 DEF Live, StoredIds
<1>6. Lists' /\ Phases'
  BY <1>2, <1>5 DEF SessionInv, Lists, Phases
<1>7. \A v \in Live : Stored(v)' = Stored(v) /\ win'[v].frozen = win[v].frozen
  BY <1>1, <1>2 DEF Stored
<1>8. Preparation'
  BY <1>1, <1>2, <1>5, <1>7 DEF SessionInv, Preparation
<1>9. QED
  BY <1>4, <1>6, <1>8 DEF SessionInv

-----------------------------------------------------------------------------
(* The exit *)

LEMMA PrepareStep ==
    ASSUME SessionInv, NEW why \in {"exit", "restart", "update"}, Prepare(why)
    PROVE SessionInv'
<1>1. order \in Seq(Windows) /\ phase = "run" /\ exit' = "preparing" /\ purpose' = why
  BY DEF Prepare, SessionInv, TypeOK
<1>2. UNCHANGED <<phase, args, order, dying, win, active, modal, exitRequested, syncFailed,
                  stored, again, left>>
  BY DEF Prepare
<1>3. toPrepare' \in Seq(Windows) /\ ToSet(toPrepare') = Live
  BY <1>1, ReverseOf DEF Prepare, Live
<1>4. TypeOK'
  BY <1>1, <1>2, <1>3 DEF SessionInv, TypeOK
<1>5. Live' = Live /\ StoredIds' = StoredIds
  BY <1>2 DEF Live, StoredIds
<1>6. Lists' /\ Phases'
  BY <1>2, <1>5 DEF SessionInv, Lists, Phases
<1>7. Preparation'
  BY <1>1, <1>2, <1>3, <1>5 DEF SessionInv, Preparation
<1>8. QED
  BY <1>4, <1>6, <1>7 DEF SessionInv

\* A window is saved as it is, and then nothing changes it.
LEMMA PrepareWindowStep ==
    ASSUME SessionInv, PrepareWindow
    PROVE SessionInv'
<1> DEFINE w == Head(toPrepare)
<1>1. /\ win \in [Windows -> Documents] /\ order \in Seq(Windows)
      /\ stored \in Seq(StoredWindows) /\ DistinctIds(stored) /\ Live \subseteq Windows
      /\ toPrepare \in Seq(Windows) /\ toPrepare # <<>>
  BY WinType DEF SessionInv, Lists, TypeOK, PrepareWindow
<1>2. /\ exit = "preparing" /\ phase = "run" /\ Live = StoredIds
      /\ ToSet(toPrepare) \subseteq Live
  BY DEF PrepareWindow, SessionInv, Preparation, Phases
<1>3. /\ w \in ToSet(toPrepare) /\ Tail(toPrepare) \in Seq(Windows)
      /\ ToSet(toPrepare) = {w} \cup ToSet(Tail(toPrepare))
  <2> DEFINE t == Tail(toPrepare)
             n == Len(toPrepare)
  <2>1. /\ n \in Nat /\ n > 0 /\ DOMAIN toPrepare = 1..n /\ w = toPrepare[1]
        /\ t \in Seq(Windows) /\ DOMAIN t = 1..(n - 1)
        /\ \A i \in 1..(n - 1) : t[i] = toPrepare[i + 1]
    BY <1>1
  <2> HIDE DEF t, n, w
  <2>2. \A i \in 1..n : i = 1 \/ (i - 1 \in 1..(n - 1) /\ (i - 1) + 1 = i)
    BY <2>1
  <2>3. \A i \in 1..(n - 1) : i + 1 \in 1..n
    BY <2>1
  <2>4. ToSet(toPrepare) = {w} \cup ToSet(t)
    <3>1. \A i \in 1..n : toPrepare[i] = w \/ \E j \in 1..(n - 1) : toPrepare[i] = t[j]
      BY <2>1, <2>2
    <3>2. 1 \in 1..n
      BY <2>1
    <3>3. ASSUME NEW x \in ToSet(toPrepare), x # w PROVE x \in ToSet(t)
      <4>1. PICK i \in 1..n : x = toPrepare[i]
        BY <2>1 DEF ToSet
      <4>2. PICK j \in 1..(n - 1) : x = t[j]
        BY <3>1, <3>3, <4>1
      <4>3. QED
        BY <2>1, <4>2 DEF ToSet
    <3>4. w \in ToSet(toPrepare)
      BY <2>1, <3>2 DEF ToSet
    <3>5. ToSet(t) \subseteq ToSet(toPrepare)
      BY <2>1, <2>3 DEF ToSet
    <3>6. QED
      BY <3>3, <3>4, <3>5
  <2>5. QED
    BY <2>1, <2>4 DEF t
<1>4. w \in Windows /\ w \in StoredIds /\ win[w].docs \in SUBSET Files
  BY <1>1, <1>2, <1>3 DEF Documents
<1> HIDE DEF w
<1>5. /\ win' = [win EXCEPT ![w].frozen = TRUE]
      /\ stored' = Saved(w, win[w].docs) /\ toPrepare' = Tail(toPrepare)
      /\ UNCHANGED <<phase, args, order, dying, active, modal, exit, purpose, exitRequested,
                     syncFailed, again, left>>
  BY DEF PrepareWindow, w
<1>6. /\ stored' \in Seq(StoredWindows) /\ DistinctIds(stored') /\ Ids(stored') = StoredIds
      /\ \A x \in ToSet(stored) : x.id # w => x \in ToSet(stored')
      /\ [id |-> w, docs |-> win[w].docs] \in ToSet(stored')
  BY <1>1, <1>4, <1>5, SavedEntry
<1>7. /\ win' \in [Windows -> Documents]
      /\ \A v \in Windows : win'[v].docs = win[v].docs
      /\ \A v \in Windows : v # w => win'[v].frozen = win[v].frozen
      /\ win'[w].frozen
  BY <1>1, <1>4, <1>5 DEF Documents
<1>8. Live' = Live /\ StoredIds' = StoredIds
  BY <1>5, <1>6 DEF Live, StoredIds, Ids
<1>9. TypeOK'
  BY <1>3, <1>5, <1>6, <1>7 DEF SessionInv, TypeOK, Documents, StoredWindows
<1>10. Lists' /\ Phases'
  BY <1>2, <1>5, <1>6, <1>8 DEF SessionInv, Lists, Phases
<1>11. Preparation'
  <2>1. \A v \in Live : Stored(v)' = Stored(v)
    BY <1>1, <1>7 DEF Stored
  <2>2. ASSUME NEW v \in Live, v \notin ToSet(toPrepare')
        PROVE win'[v].frozen /\ Stored(v)' \in ToSet(stored')
    <3>1. CASE v = w
      BY <1>6, <1>7, <2>1, <3>1 DEF Stored
    <3>2. CASE v # w
      <4>1. v \notin ToSet(toPrepare)
        BY <1>3, <1>5, <2>2, <3>2
      <4>2. win[v].frozen /\ Stored(v) \in ToSet(stored)
        BY <1>2, <4>1 DEF SessionInv, Preparation
      <4>3. Stored(v).id # w
        BY <3>2 DEF Stored
      <4>4. QED
        BY <1>1, <1>6, <1>7, <2>1, <3>2, <4>2, <4>3
    <3>3. QED
      BY <3>1, <3>2
  <2>3. ToSet(toPrepare') \subseteq Live'
    BY <1>2, <1>3, <1>5, <1>8
  <2>4. \A v \in Windows : win'[v].frozen => v \in Live'
    BY <1>2, <1>3, <1>7, <1>8 DEF SessionInv, Preparation
  <2>5. QED
    BY <1>2, <1>5, <1>8, <2>2, <2>3, <2>4 DEF Preparation
<1>12. QED
  BY <1>9, <1>10, <1>11 DEF SessionInv

\* commitApplicationExit, when every open window is stored as it is.
LEMMA CommitKeeps ==
    ASSUME SessionInv, Commit, \A w \in Live : Stored(w) \in ToSet(stored),
           UNCHANGED <<args, active, modal, purpose, toPrepare, syncFailed, stored>>
    PROVE SessionInv'
<1>1. /\ win \in [Windows -> Documents] /\ stored \in Seq(StoredWindows)
      /\ DistinctIds(stored) /\ Live \subseteq Windows /\ dying \subseteq Windows
      /\ Empty \in Documents /\ ~Empty.frozen
  BY WinType DEF SessionInv, Lists, Empty
<1>2. left' \subseteq ToSet(stored) /\ left' \subseteq StoredWindows
  <2>1. \A w \in Live : Stored(w) \in StoredWindows
    BY <1>1 DEF Stored, StoredWindows, Documents
  <2>2. left' = {Stored(w) : w \in Live}
    BY DEF Commit, Stored
  <2>3. QED
    BY <2>1, <2>2
<1>3. /\ exitRequested' = TRUE /\ order' = <<>> /\ dying' = dying \cup Live
      /\ exit' = "idle" /\ phase' = "quitting" /\ again' \in BOOLEAN
  BY DEF Commit
<1>4. /\ win' \in [Windows -> Documents]
      /\ \A w \in Windows : ~win'[w].frozen
  <2>1. win' = [w \in Windows |-> IF w \in Live THEN Empty ELSE win[w]]
    BY DEF Commit
  <2>2. QED
    BY <1>1, <2>1 DEF SessionInv, Preparation
<1>5. Live' = {}
  BY <1>3, EmptyList DEF Live
<1>6. order' \in Seq(Windows)
  BY <1>3
<1>7. TypeOK'
  BY <1>1, <1>2, <1>3, <1>4, <1>6 DEF SessionInv, TypeOK, Documents, StoredWindows
<1>8. Lists' /\ Phases'
  BY <1>1, <1>2, <1>3, <1>5, EmptyList DEF Lists, Phases
<1>9. Preparation'
  BY <1>3, <1>4, <1>5 DEF Preparation
<1>10. QED
  BY <1>7, <1>8, <1>9 DEF SessionInv

\* cancelApplicationExitPreparation
LEMMA UnfrozenKeeps ==
    ASSUME SessionInv, win' = Unfrozen, exit' = "idle", syncFailed' \in BOOLEAN,
           UNCHANGED <<phase, args, order, dying, active, modal, purpose, toPrepare,
                       exitRequested, stored, again, left>>
    PROVE SessionInv'
<1>1. /\ win \in [Windows -> Documents]
  BY WinType DEF SessionInv
<1>2. win' \in [Windows -> Documents] /\ \A w \in Windows : ~win'[w].frozen
  BY <1>1 DEF Unfrozen, Documents
<1>3. Live' = Live /\ StoredIds' = StoredIds
  BY DEF Live, StoredIds
<1>4. TypeOK'
  BY <1>2 DEF SessionInv, TypeOK, Documents
<1>5. Lists' /\ Phases'
  BY <1>3 DEF SessionInv, Lists, Phases
<1>6. Preparation'
  BY <1>2 DEF Preparation
<1>7. QED
  BY <1>4, <1>5, <1>6 DEF SessionInv

LEMMA PrepareEndsStep ==
    ASSUME SessionInv, PrepareEnds
    PROVE SessionInv'
<1>1. exit = "preparing" /\ phase = "run" /\ ToSet(toPrepare) = {}
  BY EmptyList DEF PrepareEnds, SessionInv, Preparation
<1>2. \A w \in Live : win[w].frozen /\ Stored(w) \in ToSet(stored)
  BY <1>1 DEF SessionInv, Preparation
<1>3. CASE syncFailed' = TRUE /\ exit' = "idle" /\ win' = Unfrozen
           /\ UNCHANGED <<phase, order, dying, exitRequested, again, left>>
  BY <1>3, UnfrozenKeeps DEF PrepareEnds
<1>4. CASE exit' = "prepared"
           /\ UNCHANGED <<phase, order, dying, win, exitRequested, syncFailed, again, left>>
  <2>1. UNCHANGED <<args, active, modal, purpose, toPrepare, stored>>
    BY DEF PrepareEnds
  <2>2. Live' = Live /\ StoredIds' = StoredIds
    BY <1>4, <2>1 DEF Live, StoredIds
  <2>3. TypeOK'
    BY <1>4, <2>1 DEF SessionInv, TypeOK
  <2>4. Lists' /\ Phases'
    BY <1>4, <2>1, <2>2 DEF SessionInv, Lists, Phases
  <2>5. \A w \in Live : Stored(w)' = Stored(w)
    BY <1>4 DEF Stored
  <2>6. Preparation'
    BY <1>1, <1>2, <1>4, <2>1, <2>2, <2>5 DEF SessionInv, Preparation
  <2>7. QED
    BY <2>3, <2>4, <2>6 DEF SessionInv
<1>5. CASE Commit /\ UNCHANGED syncFailed
  BY <1>2, <1>5, CommitKeeps DEF PrepareEnds
<1>6. QED
  BY <1>3, <1>4, <1>5 DEF PrepareEnds

LEMMA UpdateEndsStep ==
    ASSUME SessionInv, UpdateCommits \/ UpdateCancels
    PROVE SessionInv'
<1>1. CASE UpdateCommits
  <2>1. \A w \in Live : Stored(w) \in ToSet(stored)
    BY <1>1 DEF UpdateCommits, SessionInv, Preparation
  <2>2. QED
    BY <1>1, <2>1, CommitKeeps DEF UpdateCommits
<1>2. CASE UpdateCancels
  <2>1. syncFailed' \in BOOLEAN
    BY <1>2 DEF UpdateCancels, SessionInv, TypeOK
  <2>2. QED
    BY <1>2, <2>1, UnfrozenKeeps DEF UpdateCancels
<1>3. QED
  BY <1>1, <1>2

-----------------------------------------------------------------------------
(* The start and the end of the process *)

LEMMA StartLoadStep ==
    ASSUME SessionInv, StartLoadSession
    PROVE SessionInv'
<1>1. /\ win \in [Windows -> Documents] /\ stored \in Seq(StoredWindows)
      /\ DistinctIds(stored) /\ Empty \in Documents /\ ~Empty.frozen
      /\ \A w \in Windows : ~win[w].frozen
  BY WinType DEF SessionInv, Lists, Empty, Preparation, StartLoadSession, Begin
<1>2. /\ dying' = {} /\ modal' = <<>> /\ exit' = "idle" /\ toPrepare' = <<>>
      /\ exitRequested' = FALSE /\ syncFailed' = FALSE /\ left' = {} /\ again' = FALSE
      /\ UNCHANGED purpose /\ args' = {} /\ phase' = "run"
  BY DEF StartLoadSession, Begin
<1>3. /\ stored' \in Seq(StoredWindows) /\ DistinctIds(stored')
      /\ order' \in Seq(Windows) /\ Distinct(order') /\ order' # <<>>
      /\ ToSet(order') = Ids(stored')
      /\ win' \in [Windows -> Documents] /\ \A w \in Windows : ~win'[w].frozen
  <2>1. CASE stored = <<>>
    <3>1. PICK id \in Fresh : /\ stored' = Added(id) /\ order' = <<id>>
                              /\ win' = [win EXCEPT ![id] = Empty]
      BY <2>1 DEF StartLoadSession
    <3>2. id \in Windows /\ id \notin StoredIds
      BY <3>1 DEF Fresh
    <3>3. /\ stored' \in Seq(StoredWindows) /\ DistinctIds(stored')
          /\ Ids(stored') = StoredIds \cup {id}
      BY <1>1, <3>1, <3>2, AddedEntry
    <3>4. StoredIds = {}
      BY <2>1, EmptyList DEF StoredIds
    <3>5. /\ order' \in Seq(Windows) /\ Distinct(order') /\ order' # <<>>
          /\ ToSet(order') = {id}
      <4>1. <<id>> \in Seq(Windows) /\ DOMAIN <<id>> = {1} /\ <<id>>[1] = id
        BY <3>2
      <4>2. QED
        BY <3>1, <4>1 DEF Distinct, ToSet
    <3>6. QED
      BY <1>1, <3>1, <3>2, <3>3, <3>4, <3>5
  <2>2. CASE stored # <<>>
    <3>1. PICK currents \in [Windows -> Files \cup {None}] :
             /\ UNCHANGED stored
             /\ order' = [i \in DOMAIN stored |-> stored[i].id]
             /\ \A s \in ToSet(stored) :
                    currents[s.id] \in IF s.docs = {} THEN {None} ELSE s.docs
             /\ win' = [w \in Windows |->
                    IF w \notin StoredIds THEN Empty
                    ELSE LET docs == (CHOOSE s \in ToSet(stored) : s.id = w).docs IN
                         [Empty EXCEPT !.docs = docs, !.loading = docs, !.current = currents[w]]]
      BY <2>2 DEF StartLoadSession
    <3>2. /\ DOMAIN stored = 1..Len(stored) /\ Len(stored) \in Nat /\ Len(stored) > 0
          /\ \A i \in DOMAIN stored : stored[i] \in StoredWindows /\ stored[i].id \in Windows
      <4>1. /\ DOMAIN stored = 1..Len(stored) /\ Len(stored) \in Nat /\ Len(stored) > 0
            /\ \A i \in DOMAIN stored : stored[i] \in StoredWindows
        BY <1>1, <2>2
      <4>2. \A x \in StoredWindows : x.id \in Windows
        BY DEF StoredWindows
      <4>3. QED
        BY <4>1, <4>2
    <3>3. /\ DOMAIN order' = DOMAIN stored
          /\ \A i \in DOMAIN stored : order'[i] = stored[i].id
      BY <3>1
    <3>4. order' \in Seq(Windows)
      <4> DEFINE at(i) == stored[i].id
                 n == Len(stored)
      <4>1. order' = [i \in 1..n |-> at(i)]
        BY <3>1, <3>2
      <4>2. n \in Nat /\ \A i \in 1..n : at(i) \in Windows
        BY <3>2
      <4> HIDE DEF at, n
      <4>3. QED
        BY <4>1, <4>2
    <3>5. Distinct(order') /\ ToSet(order') = StoredIds /\ order' # <<>>
      BY <1>1, <3>2, <3>3 DEF Distinct, DistinctIds, StoredIds, ToSet
    <3>6. ASSUME NEW w \in Windows PROVE win'[w] \in Documents /\ ~win'[w].frozen
      <4>1. CASE w \notin StoredIds
        BY <1>1, <3>1, <4>1
      <4>2. CASE w \in StoredIds
        <5> DEFINE docs == (CHOOSE s \in ToSet(stored) : s.id = w).docs
        <5>1. PICK s \in ToSet(stored) : s.id = w
          BY <4>2 DEF StoredIds
        <5>2. (CHOOSE x \in ToSet(stored) : x.id = w) \in ToSet(stored)
          BY <5>1
        <5>3. \A x \in ToSet(stored) : x.docs \in SUBSET Files
          BY <3>2 DEF ToSet, StoredWindows
        <5>4. docs \in SUBSET Files
          BY <5>2, <5>3
        <5>5. win'[w] = [Empty EXCEPT !.docs = docs, !.loading = docs, !.current = currents[w]]
          BY <3>1, <4>2
        <5> HIDE DEF docs
        <5>6. currents[w] \in Files \cup {None}
          OBVIOUS
        <5>7. QED
          BY <5>4, <5>5, <5>6 DEF Empty, Documents
      <4>3. QED
        BY <4>1, <4>2
    <3>7. win' \in [Windows -> Documents]
      BY <3>1, <3>6
    <3>8. Ids(stored') = StoredIds
      BY <3>1 DEF Ids, StoredIds
    <3>9. QED
      BY <1>1, <3>1, <3>4, <3>5, <3>6, <3>7, <3>8
  <2>3. QED
    BY <2>1, <2>2
<1>4. active' \in Seq(Windows)
  BY <1>3, ReverseOf DEF StartLoadSession
<1>5. Live' = ToSet(order') /\ StoredIds' = Ids(stored')
  BY DEF Live, StoredIds, Ids
<1>6. <<>> \in Seq(Windows) /\ modal' \in Seq([kind : {"open", "alert"}, window : Windows,
                                              about : Files \cup {None}])
  BY <1>2
<1>7. TypeOK'
  BY <1>2, <1>3, <1>4, <1>6 DEF SessionInv, TypeOK, Documents, StoredWindows
<1>8. Lists' /\ Phases' /\ Preparation'
  BY <1>2, <1>3, <1>5 DEF Lists, Phases, Preparation
<1>9. QED
  BY <1>7, <1>8 DEF SessionInv

LEMMA StartNewStep ==
    ASSUME SessionInv, StartNewSession
    PROVE SessionInv'
<1>1. /\ stored \in Seq(StoredWindows) /\ DistinctIds(stored)
      /\ Empty \in Documents /\ ~Empty.frozen
  BY WinType DEF SessionInv, Lists, Empty
<1>2. /\ dying' = {} /\ modal' = <<>> /\ exit' = "idle" /\ toPrepare' = <<>>
      /\ exitRequested' = FALSE /\ syncFailed' = FALSE /\ left' = {} /\ again' = FALSE
      /\ UNCHANGED purpose /\ phase' = "clearing"
  BY DEF StartNewSession, Begin
<1>3. args' \subseteq Files
  BY DEF StartNewSession, Begin, SessionInv, TypeOK
<1>4. PICK id \in Fresh, c \in args' :
         /\ stored' = Added(id) /\ order' = <<id>> /\ active' = <<id>>
         /\ win' = [w \in Windows |->
                IF w # id THEN Empty
                ELSE [Empty EXCEPT !.docs = args', !.loading = args', !.current = c]]
  BY DEF StartNewSession
<1>5. id \in Windows /\ id \notin StoredIds
  BY <1>4 DEF Fresh
<1>6. /\ stored' \in Seq(StoredWindows) /\ DistinctIds(stored')
      /\ Ids(stored') = StoredIds \cup {id}
  BY <1>1, <1>4, <1>5, AddedEntry
<1>7. /\ order' \in Seq(Windows) /\ Distinct(order') /\ order' # <<>> /\ ToSet(order') = {id}
      /\ active' \in Seq(Windows)
  <2>1. <<id>> \in Seq(Windows) /\ DOMAIN <<id>> = {1} /\ <<id>>[1] = id
    BY <1>5
  <2>2. QED
    BY <1>4, <2>1 DEF Distinct, ToSet
<1>8. win' \in [Windows -> Documents] /\ \A w \in Windows : ~win'[w].frozen
  <2> DEFINE d == [Empty EXCEPT !.docs = args', !.loading = args', !.current = c]
  <2>1. d \in Documents /\ ~d.frozen
    BY <1>3 DEF Empty, Documents
  <2>2. win' = [w \in Windows |-> IF w # id THEN Empty ELSE d]
    BY <1>4
  <2> HIDE DEF d
  <2>3. QED
    BY <1>1, <2>1, <2>2
<1>9. Live' = {id} /\ StoredIds' = StoredIds \cup {id}
  BY <1>6, <1>7 DEF Live, StoredIds, Ids
<1>10. <<>> \in Seq(Windows) /\ modal' \in Seq([kind : {"open", "alert"}, window : Windows,
                                               about : Files \cup {None}])
  BY <1>2
<1>11. TypeOK'
  BY <1>2, <1>3, <1>6, <1>7, <1>8, <1>10 DEF SessionInv, TypeOK, Documents, StoredWindows
<1>12. Lists' /\ Phases' /\ Preparation'
  BY <1>2, <1>6, <1>7, <1>8, <1>9 DEF Lists, Phases, Preparation
<1>13. QED
  BY <1>11, <1>12 DEF SessionInv

LEMMA ClearInactiveStep ==
    ASSUME SessionInv, ClearInactive
    PROVE SessionInv'
<1>1. /\ stored \in Seq(StoredWindows) /\ DistinctIds(stored) /\ phase = "clearing"
      /\ order # <<>> /\ Live \subseteq StoredIds /\ ~exitRequested
  BY WinType DEF SessionInv, Lists, ClearInactive, Phases
<1>2. UNCHANGED <<args, program, again, left>>
  BY DEF ClearInactive
<1>3. exit = "idle"
  BY <1>1 DEF SessionInv, Preparation
<1>4. CASE StoredIds \subseteq Live /\ phase' = "run" /\ UNCHANGED stored
  <2>1. Live' = Live /\ StoredIds' = StoredIds
    BY <1>2, <1>4 DEF program, Live, StoredIds
  <2>2. TypeOK'
    BY <1>2, <1>4 DEF SessionInv, TypeOK, program
  <2>3. Lists' /\ Phases'
    BY <1>1, <1>2, <1>4, <2>1 DEF SessionInv, Lists, Phases, program
  <2>4. Preparation'
    BY <1>2, <1>3, <2>1 DEF SessionInv, Preparation, program
  <2>5. QED
    BY <2>2, <2>3, <2>4 DEF SessionInv
<1>5. CASE /\ ~(StoredIds \subseteq Live) /\ UNCHANGED phase
           /\ stored' = RemoveFirstMatch(stored, LAMBDA s : s.id \notin Live)
  <2>1. /\ stored' \in Seq(StoredWindows) /\ DistinctIds(stored')
        /\ Live \cap StoredIds \subseteq Ids(stored')
    BY <1>1, <1>5, ClearedEntry
  <2>2. Live' = Live /\ StoredIds' = Ids(stored')
    BY <1>2 DEF program, Live, StoredIds, Ids
  <2>3. TypeOK'
    BY <1>2, <1>5, <2>1 DEF SessionInv, TypeOK, StoredWindows, program
  <2>4. Lists' /\ Phases'
    BY <1>1, <1>2, <1>5, <2>1, <2>2 DEF SessionInv, Lists, Phases, program
  <2>5. Preparation'
    BY <1>2, <1>3, <2>2 DEF SessionInv, Preparation, program
  <2>6. QED
    BY <2>3, <2>4, <2>5 DEF SessionInv
<1>6. QED
  BY <1>4, <1>5 DEF ClearInactive

LEMMA EndStep ==
    ASSUME SessionInv, Quit \/ Kill
    PROVE SessionInv'
<1>1. /\ stored \in Seq(StoredWindows) /\ DistinctIds(stored) /\ left \subseteq StoredWindows
      /\ Empty \in Documents /\ ~Empty.frozen
  BY WinType DEF SessionInv, Lists, Empty
<1>2. /\ phase' = "down" /\ order' = <<>> /\ dying' = {} /\ active' = <<>> /\ modal' = <<>>
      /\ win' = [w \in Windows |-> Empty] /\ exit' = "idle" /\ toPrepare' = <<>>
      /\ UNCHANGED <<args, purpose, exitRequested, syncFailed, stored>>
      /\ again' \in BOOLEAN
  BY DEF Quit, Kill, Gone, SessionInv, TypeOK
<1>3. left' \subseteq ToSet(stored) /\ left' \subseteq StoredWindows
  BY <1>1 DEF Quit, Kill, SessionInv, Phases
<1>4. win' \in [Windows -> Documents] /\ \A w \in Windows : ~win'[w].frozen
  BY <1>1, <1>2
<1>5. Live' = {}
  BY <1>2, EmptyList DEF Live
<1>6. <<>> \in Seq(Windows) /\ modal' \in Seq([kind : {"open", "alert"}, window : Windows,
                                              about : Files \cup {None}])
  BY <1>2
<1>7. TypeOK'
  BY <1>1, <1>2, <1>3, <1>4, <1>6 DEF SessionInv, TypeOK, Documents, StoredWindows
<1>8. Lists' /\ Phases' /\ Preparation'
  BY <1>1, <1>2, <1>3, <1>4, <1>5, EmptyList DEF Lists, Phases, Preparation
<1>9. QED
  BY <1>7, <1>8 DEF SessionInv

-----------------------------------------------------------------------------
(* The theorems *)

LEMMA SessionInit ==
    ASSUME Init
    PROVE SessionInv
<1>1. Empty \in Documents /\ ~Empty.frozen
  BY DEF Empty, Documents
<1>2. <<>> \in Seq(Windows)
      /\ <<>> \in Seq([kind : {"open", "alert"}, window : Windows, about : Files \cup {None}])
      /\ <<>> \in Seq([id : Windows, docs : SUBSET Files])
  OBVIOUS
<1>3. TypeOK
  BY <1>1, <1>2 DEF Init, TypeOK, Documents
<1>4. Live = {}
  BY EmptyList DEF Init, Live
<1>5. Lists /\ Phases /\ Preparation
  BY <1>1, <1>4, EmptyList DEF Init, Lists, Phases, Preparation
<1>6. QED
  BY <1>3, <1>5 DEF SessionInv

LEMMA SessionNext ==
    ASSUME SessionInv, [Next]_vars
    PROVE SessionInv'
<1>1. CASE UNCHANGED vars
  BY <1>1 DEF vars, program, counts, SessionInv, TypeOK, Lists, Phases, Preparation, Live,
              StoredIds, Stored
<1>2. CASE StartLoadSession \/ StartNewSession \/ ClearInactive
  BY <1>2, StartLoadStep, StartNewStep, ClearInactiveStep
<1>3. CASE UserNewWindow \/ \E f \in Files : Forwarded(f)
  BY <1>3, UserNewWindowStep, ForwardedStep
<1>4. CASE \/ FileChosen \/ AlertDismissed
           \/ \E w \in Windows : UserOpens(w) \/ \E f \in Files :
                 UserClosesTab(w, f) \/ LoadEnds(w, f) \/ Switch(w, f)
  BY <1>4, QuietSteps
<1>5. CASE \E w \in Windows : UserClosesWindow(w) \/ Deleted(w) \/ QuitCloses(w)
  BY <1>5, CloseSteps, DeletedStep
<1>6. CASE \/ \E why \in {"exit", "restart", "update"} : Prepare(why)
           \/ PrepareWindow \/ PrepareEnds \/ UpdateCommits \/ UpdateCancels
  BY <1>6, PrepareStep, PrepareWindowStep, PrepareEndsStep, UpdateEndsStep
<1>7. CASE Quit \/ Kill
  BY <1>7, EndStep
<1>8. QED
  BY <1>1, <1>2, <1>3, <1>4, <1>5, <1>6, <1>7 DEF Next

\* The lists of windows have no repetitions, the session file agrees with them in every
\* phase of the process, and a preparation has frozen and stored what it says.
THEOREM SessionCorrect == Spec => []SessionInv
BY SessionInit, SessionNext, PTL DEF Spec

\* While the application runs and prepares no exit, the stored windows are the open ones
\* (SessionInfo::add, remove), so WindowSession::close sees rightly which is the last.
THEOREM StoredWindowsAreOpen == Spec => []StoredAreOpen
<1>1. SessionInv => StoredAreOpen
  BY DEF SessionInv, Phases, StoredAreOpen
<1>2. QED
  BY <1>1, SessionCorrect, PTL

\* From the preparation of an exit to its end nothing changes what it saved, and when it is
\* given up no window stays without input (KloggApp::prepareApplicationExit).
THEOREM PreparedSnapshotHolds == Spec => []SnapshotHolds
<1>1. ASSUME SessionInv PROVE SnapshotHolds
  <2>1. exit = "idle" => \A w \in Windows : ~win[w].frozen
    BY <1>1 DEF SessionInv, Preparation
  <2>2. ASSUME exit = "prepared"
        PROVE /\ \A w \in Live : win[w].frozen
              /\ {[id |-> w, docs |-> win[w].docs] : w \in Live} = ToSet(stored)
    <3>1. /\ \A w \in Live : win[w].frozen /\ Stored(w) \in ToSet(stored)
          /\ phase = "run"
      BY <1>1, <2>2 DEF SessionInv, Preparation
    <3>2. Live = StoredIds /\ DistinctIds(stored)
      BY <1>1, <3>1 DEF SessionInv, Phases, Lists
    <3>3. \A x, y \in ToSet(stored) : x.id = y.id => x = y
      BY <3>2 DEF DistinctIds, ToSet
    <3>4. ASSUME NEW x \in ToSet(stored) PROVE x.id \in Live /\ x = Stored(x.id)
      <4>1. x.id \in Live
        BY <3>2 DEF StoredIds
      <4>2. Stored(x.id) \in ToSet(stored) /\ Stored(x.id).id = x.id
        BY <3>1, <4>1 DEF Stored
      <4>3. QED
        BY <3>3, <4>1, <4>2
    <3>5. {Stored(w) : w \in Live} = ToSet(stored)
      BY <3>1, <3>4
    <3>6. QED
      BY <3>1, <3>5 DEF Stored
  <2>3. QED
    BY <2>1, <2>2 DEF SnapshotHolds
<1>2. QED
  BY <1>1, SessionCorrect, PTL

\* What was open when the process was told to end, or in its last window, is in the session
\* file when it has ended.
THEOREM SessionIsKept == Spec => []SessionKept
<1>1. SessionInv => SessionKept
  BY DEF SessionInv, Phases, SessionKept
<1>2. QED
  BY <1>1, SessionCorrect, PTL
=============================================================================
