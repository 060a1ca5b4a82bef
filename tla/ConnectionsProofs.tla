------------------------- MODULE ConnectionsProofs -------------------------
(***************************************************************************)
(* Proofs about the connection registry and the schema caches, for any     *)
(* number of clients, labels and URIs and any clock: what overlapping      *)
(* calls can and cannot do to the files they share without a lock.         *)
(***************************************************************************)
EXTENDS Connections, WellFoundedInduction, TLAPS

-----------------------------------------------------------------------------
(* The invariants. *)

\* The locals that a call has at each of its places.
Placed(k) ==
    /\ k.pc = "idle" => k = Idle
    /\ k.pc \in {"idle", "sweep"} => k.label = NoLabel
    /\ k.pc \notin {"idle", "sweep"} => k.label \in Labels
    /\ k.pc \in {"add_open", "add_fill", "load", "introspect"} => k.uri \in Uris
    /\ k.pc \notin {"introspect", "save"} => k.cache = NoCache
    /\ k.pc # "sweep" => k.todo = {}

TypeInv == TypeOK /\ \A c \in Clients : Placed(call[c])

\* A list names each label once: the registry, and what is to be written.
NamesOnce(list) ==
    \A i, j \in DOMAIN list : list[i].label = list[j].label => i = j

UniqueInv ==
    /\ registry # Garbage => NamesOnce(registry)
    /\ \A c \in Clients : NamesOnce(call[c].list)

\* What a writer of the registry has read and will write.
InTune(k) ==
    /\ k.pc \in {"add_open", "delete_open"}
         => registry # Garbage /\ Entries(registry) = expected
    /\ k.pc \in {"add_fill", "delete_fill"} => registry = << >>
    /\ k.pc \in {"add_open", "add_fill"} =>
         /\ k.label \notin LabelsIn(expected)
         /\ Entries(k.list) = expected \cup {[label |-> k.label, uri |-> k.uri]}
    /\ k.pc \in {"delete_open", "delete_fill"} =>
         Entries(k.list) = {e \in expected : e.label # k.label}

\* As long as no two writers overlap there is one at most, and it is in tune.
RegistryInv ==
    ~torn =>
      /\ \A c, d \in Clients : Writes(call[c]) /\ Writes(call[d]) => c = d
      /\ ~Written => registry # Garbage /\ Entries(registry) = expected
      /\ \A c \in Clients : InTune(call[c])

-----------------------------------------------------------------------------
(* Lists of connections. *)

\* A set of numbers has a least element: what induction comes down to here.
LEMMA LeastNumber ==
    ASSUME NEW T, T \subseteq Nat, T # {}
    PROVE  \E x \in T : \A y \in T : x <= y
<1>1. IsWellFoundedOn(OpToRel(<, Nat), Nat)
  BY NatLessThanWellFounded
<1>2. PICK x \in T : \A y \in T : ~ (<<y, x>> \in OpToRel(<, Nat))
  BY <1>1, WFMin
<1>3. \A y \in T : ~ (y < x)
  BY <1>2 DEF OpToRel
<1> QED
  BY <1>3

\* Appending an entry adds it, and keeps labels apart if its own is new.
LEMMA AppendFacts ==
    ASSUME NEW list \in Seq(Connection), NEW e \in Connection
    PROVE  /\ Append(list, e) \in Seq(Connection)
           /\ Entries(Append(list, e)) = Entries(list) \cup {e}
           /\ NamesOnce(list) /\ e.label \notin LabelsOf(list)
                => NamesOnce(Append(list, e))
<1> DEFINE new == Append(list, e)
           n   == Len(list) + 1
<1>1. /\ new \in Seq(Connection) /\ DOMAIN new = 1..n /\ n \in Nat \ {0}
      /\ DOMAIN list = 1..(n - 1)
      /\ \A i \in 1..n : new[i] = IF i = n THEN e ELSE list[i]
  OBVIOUS
<1> HIDE DEF new, n
<1>2. Entries(new) = Entries(list) \cup {e}
  <2>1. ASSUME NEW x \in Entries(new)
        PROVE  x \in Entries(list) \cup {e}
    BY <1>1, <2>1 DEF Entries
  <2>2. ASSUME NEW x \in Entries(list)
        PROVE  x \in Entries(new)
    <3>1. PICK i \in 1..(n - 1) : x = list[i]
      BY <1>1, <2>2 DEF Entries
    <3>2. i \in 1..n /\ i # n
      BY <1>1
    <3> QED
      BY <1>1, <3>1, <3>2 DEF Entries
  <2>3. e \in Entries(new)
    <3>1. n \in 1..n
      BY <1>1
    <3> QED
      BY <1>1, <3>1 DEF Entries
  <2> QED
    BY <2>1, <2>2, <2>3
<1>3. ASSUME NamesOnce(list), e.label \notin LabelsOf(list)
      PROVE  NamesOnce(new)
  <2>1. \A i \in 1..(n - 1) : list[i].label # e.label
    BY <1>1, <1>3 DEF LabelsOf, LabelsIn, Entries
  <2>2. \A i \in 1..n : i # n => i \in 1..(n - 1)
    BY <1>1
  <2> QED
    BY <1>1, <1>3, <2>1, <2>2 DEF NamesOnce
<1> QED
  BY <1>1, <1>2, <1>3 DEF new

\* The recursion of Without, up to an entry.
KeptUpTo(m, list, l, f) ==
    f = [n \in 0..m |-> IF n = 0 THEN << >>
                        ELSE IF list[n].label = l THEN f[n - 1]
                        ELSE Append(f[n - 1], list[n])]

LEMMA KeptDefined ==
    ASSUME NEW list, NEW l, NEW m \in Nat
    PROVE  \E f : KeptUpTo(m, list, l, f)
<1> DEFINE Bad == {k \in Nat : ~ \E f : KeptUpTo(k, list, l, f)}
<1> SUFFICES ASSUME Bad # {} PROVE FALSE
  OBVIOUS
<1>1. PICK k \in Bad : \A j \in Bad : k <= j
  BY LeastNumber
<1>2. CASE k = 0
  <2> DEFINE f == [n \in 0..0 |-> << >>]
  <2>1. f = [n \in 0..0 |-> IF n = 0 THEN << >>
                            ELSE IF list[n].label = l THEN f[n - 1]
                            ELSE Append(f[n - 1], list[n])]
    OBVIOUS
  <2> HIDE DEF f
  <2> QED
    BY <1>2, <2>1 DEF KeptUpTo
<1>3. CASE k # 0
  <2>1. k - 1 \in Nat /\ k - 1 \notin Bad
    BY <1>1, <1>3
  <2>2. PICK g : KeptUpTo(k - 1, list, l, g)
    BY <2>1
  <2> DEFINE Op(x, n) == IF list[n].label = l THEN x ELSE Append(x, list[n])
             f == [n \in 0..k |-> IF n = k THEN Op(g[k - 1], k) ELSE g[n]]
  <2>3. \A n \in 0..(k - 1) : g[n] = IF n = 0 THEN << >> ELSE Op(g[n - 1], n)
    BY <2>2 DEF KeptUpTo
  <2>4. \A n \in 0..k : n # k => n \in 0..(k - 1)
    BY <2>1
  <2>5. \A n \in 0..k : n # 0 => n - 1 \in 0..k /\ n - 1 # k
    BY <2>1
  <2>6. \A n \in 0..k : f[n] = IF n = 0 THEN << >> ELSE Op(f[n - 1], n)
    <3> HIDE DEF Op
    <3> QED
      BY <1>3, <2>3, <2>4, <2>5
  <2>7. f = [n \in 0..k |-> f[n]]
    OBVIOUS
  <2>8. f = [n \in 0..k |-> IF n = 0 THEN << >> ELSE Op(f[n - 1], n)]
    <3> HIDE DEF f, Op
    <3> QED
      BY <2>6, <2>7
  <2> HIDE DEF f
  <2> QED
    BY <2>8 DEF KeptUpTo
<1> QED
  BY <1>2, <1>3

\* Deleting a label keeps the entries of all others, each of them once.
LEMMA WithoutFacts ==
    ASSUME NEW list \in Seq(Connection), NEW l
    PROVE  /\ Without(list, l) \in Seq(Connection)
           /\ Entries(Without(list, l)) = {e \in Entries(list) : e.label # l}
           /\ NamesOnce(list) => NamesOnce(Without(list, l))
<1> DEFINE f == CHOOSE f : KeptUpTo(Len(list), list, l, f)
           Upto(n) == {list[i] : i \in {j \in 1..n : list[j].label # l}}
           Good(n) == /\ f[n] \in Seq(Connection)
                      /\ Entries(f[n]) = Upto(n)
                      /\ NamesOnce(list) => NamesOnce(f[n])
           Bad == {n \in 0..Len(list) : ~Good(n)}
<1>1. Len(list) \in Nat /\ DOMAIN list = 1..Len(list)
  OBVIOUS
<1>2. KeptUpTo(Len(list), list, l, f)
  BY <1>1, KeptDefined
<1>3. Without(list, l) = f[Len(list)]
  BY DEF Without, KeptUpTo
<1> HIDE DEF f
<1>4. \A n \in 0..Len(list) :
        f[n] = IF n = 0 THEN << >>
               ELSE IF list[n].label = l THEN f[n - 1]
               ELSE Append(f[n - 1], list[n])
  BY <1>2 DEF KeptUpTo
<1>5. Bad = {}
  <2> SUFFICES ASSUME Bad # {} PROVE FALSE
    OBVIOUS
  <2>1. PICK n \in Bad : \A j \in Bad : n <= j
    <3>1. Bad \subseteq Nat
      OBVIOUS
    <3> HIDE DEF Bad
    <3> QED
      BY <3>1, LeastNumber
  <2>2. n # 0
    <3>1. << >> \in Seq(Connection) /\ DOMAIN << >> = {}
      OBVIOUS
    <3>2. f[0] = << >>
      BY <1>1, <1>4
    <3>3. Good(0)
      BY <3>1, <3>2 DEF Entries, NamesOnce
    <3> QED
      BY <2>1, <3>3
  <2>3. n \in 1..Len(list) /\ n - 1 \in 0..Len(list) /\ Good(n - 1)
    <3>1. n \in 1..Len(list) /\ n - 1 \in 0..Len(list) /\ ~(n <= n - 1)
      BY <1>1, <2>1, <2>2
    <3>2. n - 1 \notin Bad
      BY <2>1, <3>1
    <3> HIDE DEF Good
    <3> QED
      BY <3>1, <3>2
  <2>4. list[n] \in Connection
    BY <1>1, <2>3
  <2>5. CASE list[n].label = l
    <3>1. f[n] = f[n - 1]
      BY <1>4, <2>2, <2>3, <2>5
    <3>2. {j \in 1..n : list[j].label # l}
            = {j \in 1..(n - 1) : list[j].label # l}
      BY <2>3, <2>5
    <3>3. Good(n)
      BY <2>3, <3>1, <3>2
    <3> QED
      BY <2>1, <3>3
  <2>6. CASE list[n].label # l
    <3>1. f[n] = Append(f[n - 1], list[n])
      BY <1>4, <2>2, <2>3, <2>6
    <3>2. /\ f[n] \in Seq(Connection)
          /\ Entries(f[n]) = Upto(n - 1) \cup {list[n]}
      BY <2>3, <2>4, <3>1, AppendFacts
    <3>3. {j \in 1..n : list[j].label # l}
            = {j \in 1..(n - 1) : list[j].label # l} \cup {n}
      BY <2>3, <2>6
    <3>4. Upto(n) = Upto(n - 1) \cup {list[n]}
      BY <3>3
    <3>5. ASSUME NamesOnce(list)
          PROVE  NamesOnce(f[n])
      <4>1. \A i \in 1..(n - 1) : list[i].label # list[n].label
        BY <1>1, <2>3, <3>5 DEF NamesOnce
      <4>2. list[n].label \notin LabelsOf(f[n - 1])
        BY <2>3, <4>1 DEF LabelsOf, LabelsIn
      <4> QED
        BY <2>3, <2>4, <3>1, <3>5, <4>2, AppendFacts
    <3>6. Good(n)
      BY <3>2, <3>4, <3>5
    <3> QED
      BY <2>1, <3>6
  <2> QED
    BY <2>5, <2>6
<1>6. Good(Len(list))
  <2> HIDE DEF Good
  <2>1. Len(list) \in 0..Len(list)
    <3> HIDE DEF f, Upto
    <3> QED
      BY <1>1
  <2>2. Len(list) \notin Bad
    <3> HIDE DEF Bad
    <3> QED
      BY <1>5
  <2> QED
    BY <2>1, <2>2
<1>7. Upto(Len(list)) = {e \in Entries(list) : e.label # l}
  BY <1>1 DEF Entries
<1> QED
  BY <1>3, <1>6, <1>7

\* The URI looked up for a label is that of an entry of the list.
LEMMA UriOfFacts ==
    ASSUME NEW list \in Seq(Connection), NEW l \in LabelsOf(list)
    PROVE  /\ UriOf(list, l) \in Uris
           /\ [label |-> l, uri |-> UriOf(list, l)] \in Entries(list)
<1>1. \E e \in Entries(list) : e.label = l
  BY DEF LabelsOf, LabelsIn
<1> DEFINE e == CHOOSE e \in Entries(list) : e.label = l
<1>2. e \in Entries(list) /\ e.label = l
  BY <1>1
<1>3. Entries(list) \subseteq Connection
  BY DEF Entries
<1>4. UriOf(list, l) = e.uri
  BY DEF UriOf
<1> HIDE DEF e
<1>5. e = [label |-> l, uri |-> e.uri] /\ e.uri \in Uris
  BY <1>2, <1>3 DEF Connection
<1> QED
  BY <1>2, <1>4, <1>5

-----------------------------------------------------------------------------
(* Types. *)

CallType == [pc : Pc, label : Labels \cup {NoLabel}, uri : Uris \cup {NoUri},
             list : Seq(Connection), cache : Cache \cup {NoCache},
             old : BOOLEAN, todo : SUBSET Labels]

WellFormed(k) ==
    k \in CallType /\ (k.pc = "save" => k.cache # NoCache) /\ Placed(k)

LEMMA TypeParts ==
    TypeInv <=> /\ registry = Garbage \/ registry \in Seq(Connection)
                /\ caches \in [Labels -> Cache \cup {NoCache}]
                /\ clock \in 0..MaxTime
                /\ call \in [Clients -> CallType]
                /\ \A c \in Clients : WellFormed(call[c])
                /\ expected \subseteq Connection
                /\ torn \in BOOLEAN
                /\ crossed \subseteq Labels
BY DEF TypeInv, TypeOK, CallType, WellFormed

LEMMA IdleWellFormed == WellFormed(Idle)
<1>1. << >> \in Seq(Connection)
  OBVIOUS
<1> QED
  BY <1>1 DEF WellFormed, Placed, Idle, CallType, Pc

\* A call that begins, with the locals it is given.
LEMMA FreshWellFormed ==
    ASSUME NEW l \in Labels, NEW u \in Uris, NEW list \in Seq(Connection)
    PROVE  /\ WellFormed([Idle EXCEPT !.pc = "add_open", !.label = l, !.uri = u,
                                      !.list = list])
           /\ WellFormed([Idle EXCEPT !.pc = "delete_open", !.label = l,
                                      !.list = list])
           /\ WellFormed([Idle EXCEPT !.pc = "load", !.label = l, !.uri = u])
<1>1. << >> \in Seq(Connection)
  OBVIOUS
<1> QED
  BY <1>1 DEF WellFormed, Placed, Idle, CallType, Pc

\* One call changes to another that is well formed.
LEMMA CallChange ==
    ASSUME TypeInv, NEW c \in Clients, NEW next, WellFormed(next),
           call' = [call EXCEPT ![c] = next]
    PROVE  /\ call' \in [Clients -> CallType]
           /\ \A d \in Clients : WellFormed(call'[d])
           /\ call'[c] = next
           /\ \A d \in Clients : d # c => call'[d] = call[d]
BY TypeParts DEF WellFormed

\* A label at work.
LEMMA AtWork ==
    ASSUME NEW k, WellFormed(k), k.pc \notin {"idle", "sweep"}
    PROVE  k.label \in Labels /\ k.label # NoLabel
BY AbsenceAssumption DEF WellFormed, Placed

LEMMA OutdateWellFormed ==
    ASSUME NEW k, WellFormed(k), NEW ls
    PROVE  WellFormed(Outdate(k, ls))
<1>1. CASE k.pc = "introspect" /\ k.label \in ls
  BY <1>1 DEF Outdate, WellFormed, Placed, CallType, Idle
<1>2. CASE k.pc = "save" /\ k.label \in ls
  <2>1. k.cache \in Cache
    BY <1>2 DEF WellFormed, CallType
  <2>2. [k.cache EXCEPT !.old = TRUE] \in Cache
    BY <2>1 DEF Cache
  <2>3. [k.cache EXCEPT !.old = TRUE] # NoCache
    BY <2>2, AbsenceAssumption
  <2>4. Outdate(k, ls) = [k EXCEPT !.cache = [k.cache EXCEPT !.old = TRUE]]
    BY <1>2 DEF Outdate
  <2> QED
    BY <1>2, <2>2, <2>3, <2>4 DEF WellFormed, Placed, CallType
<1>3. CASE ~(k.pc = "introspect" /\ k.label \in ls)
           /\ ~(k.pc = "save" /\ k.label \in ls)
  BY <1>3 DEF Outdate
<1> QED
  BY <1>1, <1>2, <1>3

\* Where Fill leads.
LEMMA FillWellFormed ==
    ASSUME NEW k, WellFormed(k), k.pc \in {"add_fill", "delete_fill"}
    PROVE  /\ k.pc = "add_fill"
                => WellFormed([k EXCEPT !.pc = "introspect", !.list = << >>])
           /\ k.pc = "delete_fill"
                => WellFormed([k EXCEPT !.pc = "drop", !.list = << >>])
<1>1. << >> \in Seq(Connection)
  OBVIOUS
<1> QED
  BY <1>1 DEF WellFormed, Placed, CallType, Pc

\* Where an introspection leads.
LEMMA SaveWellFormed ==
    ASSUME NEW k, WellFormed(k), k.pc = "introspect",
           NEW cache \in Cache
    PROVE  WellFormed([k EXCEPT !.pc = "save", !.uri = NoUri, !.old = FALSE,
                                !.cache = cache])
<1>1. cache # NoCache
  BY AbsenceAssumption
<1> QED
  BY <1>1 DEF WellFormed, Placed, CallType, Pc

LEMMA TypeStep == TypeInv /\ [Next]_vars => TypeInv'
<1> SUFFICES ASSUME TypeInv, [Next]_vars
             PROVE  TypeInv'
  OBVIOUS
<1>0. /\ registry = Garbage \/ registry \in Seq(Connection)
      /\ caches \in [Labels -> Cache \cup {NoCache}]
      /\ clock \in 0..MaxTime
      /\ call \in [Clients -> CallType]
      /\ \A c \in Clients : WellFormed(call[c])
      /\ expected \subseteq Connection
      /\ torn \in BOOLEAN
      /\ crossed \subseteq Labels
  BY TypeParts
<1>a. ASSUME registry' = Garbage \/ registry' \in Seq(Connection),
             caches' \in [Labels -> Cache \cup {NoCache}],
             clock' \in 0..MaxTime,
             call' \in [Clients -> CallType],
             \A c \in Clients : WellFormed(call'[c]),
             expected' \subseteq Connection,
             torn' \in BOOLEAN,
             crossed' \subseteq Labels
      PROVE  TypeInv'
  BY <1>a DEF TypeInv, TypeOK, CallType, WellFormed
<1>b. ASSUME NEW c \in Clients, NEW next, Begin(c, next), WellFormed(next),
             UNCHANGED <<registry, caches, clock, expected>>
      PROVE  TypeInv'
  <2>1. call' = [call EXCEPT ![c] = next]
    BY <1>b DEF Begin
  <2>2. /\ call' \in [Clients -> CallType]
        /\ \A d \in Clients : WellFormed(call'[d])
    BY <1>b, <2>1, CallChange
  <2>3. torn' \in BOOLEAN /\ crossed' \subseteq Labels
    BY <1>0, <1>b DEF Begin
  <2> QED
    BY <1>0, <1>b, <2>2, <2>3, <1>a
<1>c. ASSUME NEW c \in Clients, NEW next, Continue(c, next), WellFormed(next),
             registry' = Garbage \/ registry' \in Seq(Connection),
             caches' \in [Labels -> Cache \cup {NoCache}],
             clock' = clock, expected' \subseteq Connection
      PROVE  TypeInv'
  <2>1. call' = [call EXCEPT ![c] = next]
    BY <1>c DEF Continue
  <2>2. /\ call' \in [Clients -> CallType]
        /\ \A d \in Clients : WellFormed(call'[d])
    BY <1>c, <2>1, CallChange
  <2>3. torn' = torn /\ crossed' = crossed
    BY <1>c DEF Continue
  <2> QED
    BY <1>0, <1>c, <2>2, <2>3, <1>a
<1>1. ASSUME NEW c \in Clients, NEW l \in Labels, NEW u \in Uris, Add(c, l, u)
      PROVE  TypeInv'
  <2> DEFINE e == [label |-> l, uri |-> u]
             next == [Idle EXCEPT !.pc = "add_open", !.label = l, !.uri = u,
                                  !.list = Append(registry, e)]
  <2>1. /\ registry \in Seq(Connection)
        /\ Begin(c, next) /\ UNCHANGED <<registry, caches, clock, expected>>
    BY <1>0, <1>1 DEF Add
  <2>2. Append(registry, e) \in Seq(Connection)
    BY <2>1, AppendFacts DEF Connection
  <2>3. WellFormed(next)
    BY <2>2, FreshWellFormed
  <2> HIDE DEF next
  <2> QED
    BY <1>b, <2>1, <2>3
<1>2. ASSUME NEW c \in Clients, NEW l \in Labels, Remove(c, l)
      PROVE  TypeInv'
  <2> DEFINE next == [Idle EXCEPT !.pc = "delete_open", !.label = l,
                                  !.list = Without(registry, l)]
  <2>1. /\ registry \in Seq(Connection)
        /\ Begin(c, next) /\ UNCHANGED <<registry, caches, clock, expected>>
    BY <1>0, <1>2 DEF Remove
  <2>2. Without(registry, l) \in Seq(Connection)
    BY <2>1, WithoutFacts
  <2>u. PICK u \in Uris : TRUE
    <3>1. l \in LabelsOf(registry)
      BY <1>2 DEF Remove
    <3> QED
      BY <2>1, <3>1, UriOfFacts
  <2>3. WellFormed(next)
    BY <2>2, <2>u, FreshWellFormed
  <2> HIDE DEF next
  <2> QED
    BY <1>b, <2>1, <2>3
<1>3. ASSUME NEW c \in Clients, NEW l \in Labels, Ensure(c, l)
      PROVE  TypeInv'
  <2> DEFINE next == [Idle EXCEPT !.pc = "load", !.label = l,
                                  !.uri = UriOf(registry, l)]
  <2>1. /\ registry \in Seq(Connection) /\ l \in LabelsOf(registry)
        /\ Begin(c, next) /\ UNCHANGED <<registry, caches, clock, expected>>
    BY <1>0, <1>3 DEF Ensure
  <2>2. UriOf(registry, l) \in Uris
    BY <2>1, UriOfFacts
  <2>3. WellFormed(next)
    BY <2>1, <2>2, FreshWellFormed
  <2> HIDE DEF next
  <2> QED
    BY <1>b, <2>1, <2>3
<1>4. ASSUME NEW c \in Clients, Truncate(c)
      PROVE  TypeInv'
  <2> DEFINE k == call[c]
             next == [k EXCEPT !.pc = IF k.pc = "add_open" THEN "add_fill"
                                      ELSE "delete_fill"]
  <2>1. /\ k.pc \in {"add_open", "delete_open"} /\ Continue(c, next)
        /\ registry' = << >> /\ UNCHANGED <<caches, clock, expected>>
    BY <1>4 DEF Truncate
  <2>2. WellFormed(k)
    BY <1>0
  <2>3. WellFormed(next)
    <3> HIDE DEF k
    <3> QED
      BY <2>1, <2>2 DEF WellFormed, Placed, CallType, Pc
  <2>4. << >> \in Seq(Connection)
    OBVIOUS
  <2> HIDE DEF next
  <2> QED
    BY <1>0, <1>c, <2>1, <2>3, <2>4
<1>5. ASSUME NEW c \in Clients, Fill(c)
      PROVE  TypeInv'
  <2> DEFINE k == call[c]
  <2>1. WellFormed(k) /\ k.pc \in {"add_fill", "delete_fill"}
    BY <1>0, <1>5 DEF Fill
  <2>2. k.list \in Seq(Connection) /\ k.label \in Labels
    BY <2>1 DEF WellFormed, Placed, CallType
  <2>3. registry' = Garbage \/ registry' \in Seq(Connection)
    BY <1>5, <2>2 DEF Fill, Overlay
  <2>4. UNCHANGED <<caches, clock>>
    BY <1>5 DEF Fill
  <2>5. CASE k.pc = "add_fill"
    <3>1. k.uri \in Uris
      BY <2>1, <2>5 DEF WellFormed, Placed
    <3>2. expected' \subseteq Connection
      BY <1>0, <1>5, <2>2, <2>5, <3>1 DEF Fill, Connection
    <3>3. \/ Continue(c, [k EXCEPT !.pc = "introspect", !.list = << >>])
          \/ Continue(c, Idle)
      BY <1>5, <2>5 DEF Fill
    <3>4. WellFormed([k EXCEPT !.pc = "introspect", !.list = << >>])
      BY <2>1, <2>5, FillWellFormed
    <3> QED
      BY <1>0, <1>c, <2>3, <2>4, <3>2, <3>3, <3>4, IdleWellFormed
  <2>6. CASE k.pc = "delete_fill"
    <3>1. expected' \subseteq Connection
      BY <1>0, <1>5, <2>6 DEF Fill
    <3>2. Continue(c, [k EXCEPT !.pc = "drop", !.list = << >>])
      BY <1>5, <2>6 DEF Fill
    <3>3. WellFormed([k EXCEPT !.pc = "drop", !.list = << >>])
      BY <2>1, <2>6, FillWellFormed
    <3> QED
      BY <1>0, <1>c, <2>3, <2>4, <3>1, <3>2, <3>3
  <2> QED
    BY <2>1, <2>5, <2>6
<1>6. ASSUME NEW c \in Clients, Drop(c)
      PROVE  TypeInv'
  <2>1. caches' \in [Labels -> Cache \cup {NoCache}]
    BY <1>0, <1>6 DEF Drop
  <2> QED
    BY <1>0, <1>6, <1>c, <2>1, IdleWellFormed DEF Drop
<1>7. ASSUME NEW c \in Clients, Load(c)
      PROVE  TypeInv'
  <2> DEFINE k == call[c]
             cache == caches[k.label]
             next == [k EXCEPT !.pc = "introspect", !.cache = cache]
  <2>1. /\ k.pc = "load" /\ (Continue(c, next) \/ Continue(c, Idle))
        /\ UNCHANGED <<registry, caches, clock, expected>>
    BY <1>7 DEF Load, At
  <2>2. WellFormed(k) /\ k.label \in Labels
    BY <1>0, <2>1, AtWork
  <2>3. WellFormed(next)
    <3>1. cache \in Cache \cup {NoCache}
      BY <1>0, <2>2
    <3> HIDE DEF k, cache
    <3> QED
      BY <2>1, <2>2, <3>1 DEF WellFormed, Placed, CallType, Pc
  <2> HIDE DEF next
  <2> QED
    BY <1>0, <1>c, <2>1, <2>3, IdleWellFormed
<1>8. ASSUME NEW c \in Clients, IntrospectOk(c)
      PROVE  TypeInv'
  <2> DEFINE k == call[c]
             cache == [uri |-> k.uri, populatedAt |-> clock, old |-> k.old]
             next == [k EXCEPT !.pc = "save", !.uri = NoUri, !.old = FALSE,
                               !.cache = cache]
  <2>1. /\ k.pc = "introspect" /\ Continue(c, next)
        /\ UNCHANGED <<registry, caches, clock, expected>>
    BY <1>8 DEF IntrospectOk, At
  <2>2. WellFormed(k)
    BY <1>0
  <2>3. cache \in Cache
    BY <1>0, <2>1, <2>2 DEF WellFormed, Placed, CallType, Cache
  <2>4. WellFormed(next)
    <3> HIDE DEF k, cache
    <3> QED
      BY <2>1, <2>2, <2>3, SaveWellFormed
  <2> HIDE DEF next
  <2> QED
    BY <1>0, <1>c, <2>1, <2>4
<1>9. ASSUME NEW c \in Clients, IntrospectFails(c)
      PROVE  TypeInv'
  <2> DEFINE k == call[c]
             next == [k EXCEPT !.pc = "save", !.uri = NoUri, !.old = FALSE]
  <2>1. /\ k.pc = "introspect"
        /\ IF k.cache = NoCache THEN Continue(c, Idle) ELSE Continue(c, next)
        /\ UNCHANGED <<registry, caches, clock, expected>>
    BY <1>9 DEF IntrospectFails, At
  <2>2. WellFormed(k)
    BY <1>0
  <2>3. CASE k.cache # NoCache
    <3>1. WellFormed(next)
      <4> HIDE DEF k
      <4> QED
        BY <2>1, <2>2, <2>3 DEF WellFormed, Placed, CallType, Pc
    <3> HIDE DEF next
    <3> QED
      BY <1>0, <1>c, <2>1, <2>3, <3>1
  <2>4. CASE k.cache = NoCache
    BY <1>0, <1>c, <2>1, <2>4, IdleWellFormed
  <2> QED
    BY <2>3, <2>4
<1>10. ASSUME NEW c \in Clients, Save(c)
       PROVE  TypeInv'
  <2>1. call[c].cache \in Cache \cup {NoCache}
    BY <1>0 DEF CallType
  <2>2. caches' \in [Labels -> Cache \cup {NoCache}]
    BY <1>0, <1>10, <2>1 DEF Save
  <2> QED
    BY <1>0, <1>10, <1>c, <2>2, IdleWellFormed DEF Save
<1>11. ASSUME NEW c \in Clients, NEW l \in Labels, Refresh(c, l)
       PROVE  TypeInv'
  <2>1. /\ call' = [d \in Clients |-> Outdate(call[d], {l})]
        /\ caches' \in [Labels -> Cache \cup {NoCache}]
        /\ crossed' \subseteq Labels
        /\ UNCHANGED <<registry, clock, expected, torn>>
    BY <1>0, <1>11 DEF Refresh
  <2>2. \A d \in Clients : WellFormed(call'[d])
    BY <1>0, <2>1, OutdateWellFormed
  <2>3. call' \in [Clients -> CallType]
    BY <2>1, <2>2 DEF WellFormed
  <2> QED
    BY <1>0, <2>1, <2>2, <2>3, <1>a
<1>12. ASSUME NEW c \in Clients, RefreshAll(c)
       PROVE  TypeInv'
  <2> DEFINE present == {l \in Labels : caches[l] # NoCache}
             sweep == [Idle EXCEPT !.pc = "sweep", !.todo = present]
  <2>1. /\ call' = [d \in Clients |->
                      IF d = c THEN sweep ELSE Outdate(call[d], Labels)]
        /\ caches' = [l \in Labels |-> IF l \in present
                                       THEN [caches[l] EXCEPT !.old = TRUE]
                                       ELSE NoCache]
        /\ crossed' \subseteq Labels
        /\ UNCHANGED <<registry, clock, expected, torn>>
    BY <1>0, <1>12 DEF RefreshAll
  <2>2. caches' \in [Labels -> Cache \cup {NoCache}]
    <3>1. \A l \in present : [caches[l] EXCEPT !.old = TRUE] \in Cache
      BY <1>0 DEF Cache
    <3> HIDE DEF present
    <3> QED
      BY <2>1, <3>1
  <2>3. WellFormed(sweep)
    <3>1. present \in SUBSET Labels /\ << >> \in Seq(Connection)
      OBVIOUS
    <3> HIDE DEF present
    <3> QED
      BY <3>1 DEF WellFormed, Placed, Idle, CallType, Pc
  <2>4. \A d \in Clients : WellFormed(call'[d])
    <3> HIDE DEF sweep
    <3> QED
      BY <1>0, <2>1, <2>3, OutdateWellFormed
  <2>5. call' \in [Clients -> CallType]
    BY <2>1, <2>4 DEF WellFormed
  <2> QED
    BY <1>0, <2>1, <2>2, <2>4, <2>5, <1>a
<1>13. ASSUME NEW c \in Clients, NEW l \in Labels, Sweep(c, l)
       PROVE  TypeInv'
  <2> DEFINE k == call[c]
             next == [k EXCEPT !.todo = k.todo \ {l}]
  <2>1. /\ k.pc = "sweep" /\ l \in k.todo
        /\ Continue(c, Idle) \/ Continue(c, next)
        /\ UNCHANGED <<registry, clock, expected>>
    BY <1>13 DEF Sweep, At
  <2>2. caches' \in [Labels -> Cache \cup {NoCache}]
    BY <1>0, <1>13 DEF Sweep
  <2>3. WellFormed(k)
    BY <1>0
  <2>4. WellFormed(next)
    <3> HIDE DEF k
    <3> QED
      BY <2>1, <2>3 DEF WellFormed, Placed, CallType
  <2> HIDE DEF next
  <2> QED
    BY <1>0, <1>c, <2>1, <2>2, <2>4, IdleWellFormed
<1>14. ASSUME NEW c \in Clients, Cut(c)
       PROVE  TypeInv'
  <2>1. /\ call' = [call EXCEPT ![c] = Idle]
        /\ torn' \in BOOLEAN /\ crossed' \subseteq Labels
        /\ UNCHANGED <<registry, caches, clock, expected>>
    BY <1>0, <1>14 DEF Cut
  <2>2. /\ call' \in [Clients -> CallType]
        /\ \A d \in Clients : WellFormed(call'[d])
    BY <2>1, CallChange, IdleWellFormed
  <2> QED
    BY <1>0, <2>1, <2>2, <1>a
<1>15. CASE Tick
  <2>1. clock' \in 0..MaxTime
    BY <1>0, <1>15, IntervalAssumption DEF Tick
  <2> QED
    BY <1>0, <1>15, <2>1, <1>a DEF Tick
<1>16. CASE UNCHANGED vars
  BY <1>0, <1>16, <1>a DEF vars
<1> QED
  BY <1>1, <1>2, <1>3, <1>4, <1>5, <1>6, <1>7, <1>8, <1>9, <1>10, <1>11,
     <1>12, <1>13, <1>14, <1>15, <1>16
  DEF Next

LEMMA TypeInit == Init => TypeInv
<1> SUFFICES ASSUME Init PROVE TypeInv
  OBVIOUS
<1>1. << >> \in Seq(Connection) /\ 0 \in 0..MaxTime
  BY IntervalAssumption
<1>2. \A c \in Clients : call[c] = Idle /\ WellFormed(call[c])
  BY IdleWellFormed DEF Init
<1>3. call \in [Clients -> CallType]
  BY <1>2 DEF Init, WellFormed
<1> QED
  BY <1>1, <1>2, <1>3, TypeParts DEF Init

LEMMA TypeInvariant == Spec => []TypeInv
BY TypeInit, TypeStep, PTL DEF Spec

\* Every reachable state of the registry, the caches and the calls is well
\* typed, and what is to be saved is always a schema.
THEOREM TypeCorrect == Spec => []TypeOK
<1>1. TypeInv => TypeOK
  BY DEF TypeInv
<1> QED
  BY <1>1, TypeInvariant, PTL

-----------------------------------------------------------------------------
(* No label is registered twice. *)

\* A refresh leaves the calls of others where they are; what they have read
\* of the database is old now.
LEMMA OutdateFacts ==
    ASSUME NEW k, WellFormed(k), NEW ls
    PROVE  LET n == Outdate(k, ls)
           IN  /\ n.pc = k.pc /\ n.label = k.label /\ n.uri = k.uri
               /\ n.list = k.list /\ n.todo = k.todo
               /\ n.old = k.old \/ n.label \in ls
               /\ n.cache = k.cache
                    \/ /\ n.label \in ls
                       /\ k.cache # NoCache /\ n.cache # NoCache
                       /\ n.cache.uri = k.cache.uri
                       /\ n.cache.populatedAt = k.cache.populatedAt
<1>1. CASE k.pc = "introspect" /\ k.label \in ls
  BY <1>1 DEF Outdate, WellFormed, CallType
<1>2. CASE k.pc = "save" /\ k.label \in ls
  <2>1. k.cache \in Cache /\ k.cache # NoCache
    BY <1>2 DEF WellFormed, CallType
  <2> DEFINE new == [k.cache EXCEPT !.old = TRUE]
  <2>2. /\ new \in Cache /\ new.uri = k.cache.uri
        /\ new.populatedAt = k.cache.populatedAt
    BY <2>1 DEF Cache
  <2>3. new # NoCache
    BY <2>2, AbsenceAssumption
  <2>4. Outdate(k, ls) = [k EXCEPT !.cache = new]
    BY <1>2 DEF Outdate
  <2> HIDE DEF new
  <2> QED
    BY <1>2, <2>1, <2>2, <2>3, <2>4 DEF WellFormed, CallType
<1>3. CASE ~(k.pc = "introspect" /\ k.label \in ls)
           /\ ~(k.pc = "save" /\ k.label \in ls)
  BY <1>3 DEF Outdate
<1> QED
  BY <1>1, <1>2, <1>3

\* The lists that a step may leave in the registry and in a call.
ListsMove ==
    /\ \/ registry' \in {registry, << >>, Garbage}
       \/ \E c \in Clients : registry' = call[c].list
    /\ \A c \in Clients :
         \/ call'[c].list \in {call[c].list, << >>}
         \/ /\ registry # Garbage
            /\ \E l \in Labels : call'[c].list = Without(registry, l)
         \/ /\ registry # Garbage
            /\ \E l \in Labels, u \in Uris :
                 /\ l \notin LabelsOf(registry)
                 /\ call'[c].list = Append(registry, [label |-> l, uri |-> u])

LEMMA ListsStep == TypeInv /\ Next => ListsMove
<1> SUFFICES ASSUME TypeInv, Next
             PROVE  ListsMove
  OBVIOUS
<1>0. /\ call \in [Clients -> CallType]
      /\ \A c \in Clients : WellFormed(call[c])
  BY TypeParts
<1>i. Idle.list = << >>
  BY DEF Idle
<1>c. ASSUME NEW c \in Clients, call'[c].list \in {call[c].list, << >>},
             \A d \in Clients : d # c => call'[d] = call[d],
             registry' = registry
      PROVE  ListsMove
  <2>1. \A d \in Clients : call'[d].list \in {call[d].list, << >>}
    BY <1>0, <1>c
  <2> QED
    BY <1>c, <2>1 DEF ListsMove
<1>1. ASSUME NEW c \in Clients, NEW l \in Labels, NEW u \in Uris, Add(c, l, u)
      PROVE  ListsMove
  <2> DEFINE list == Append(registry, [label |-> l, uri |-> u])
  <2>1. /\ registry # Garbage /\ l \notin LabelsOf(registry)
        /\ registry' = registry
        /\ call' = [call EXCEPT ![c] =
                      [Idle EXCEPT !.pc = "add_open", !.label = l, !.uri = u,
                                   !.list = list]]
    BY <1>1 DEF Add, Begin
  <2> HIDE DEF list
  <2>2. call'[c].list = list /\ \A d \in Clients : d # c => call'[d] = call[d]
    BY <1>0, <2>1 DEF Idle
  <2>3. registry' = registry
    BY <2>1
  <2> QED
    BY <2>1, <2>2, <2>3 DEF list, ListsMove
<1>2. ASSUME NEW c \in Clients, NEW l \in Labels, Remove(c, l)
      PROVE  ListsMove
  <2> DEFINE list == Without(registry, l)
  <2>1. /\ registry # Garbage
        /\ registry' = registry
        /\ call' = [call EXCEPT ![c] =
                      [Idle EXCEPT !.pc = "delete_open", !.label = l,
                                   !.list = list]]
    BY <1>2 DEF Remove, Begin
  <2> HIDE DEF list
  <2>2. call'[c].list = list /\ \A d \in Clients : d # c => call'[d] = call[d]
    BY <1>0, <2>1 DEF Idle
  <2> QED
    BY <2>1, <2>2 DEF list, ListsMove
<1>3. ASSUME NEW c \in Clients, NEW l \in Labels, Ensure(c, l)
      PROVE  ListsMove
  <2>1. /\ registry' = registry
        /\ \E u : call' = [call EXCEPT ![c] = [Idle EXCEPT !.pc = "load",
                                               !.label = l, !.uri = u]]
    BY <1>3 DEF Ensure, Begin
  <2>2. \A d \in Clients : call'[d].list \in {call[d].list, << >>}
    BY <1>0, <2>1 DEF Idle
  <2> QED
    BY <2>1, <2>2 DEF ListsMove
<1>4. ASSUME NEW c \in Clients, Truncate(c)
      PROVE  ListsMove
  <2>1. \A d \in Clients : call'[d].list = call[d].list
    BY <1>0, <1>4 DEF Truncate, Continue, CallType
  <2> QED
    BY <1>4, <2>1 DEF Truncate, ListsMove
<1>5. ASSUME NEW c \in Clients, Fill(c)
      PROVE  ListsMove
  <2>1. registry' \in {call[c].list, Garbage}
    BY <1>5 DEF Fill, Overlay
  <2>2. \A d \in Clients : call'[d].list \in {call[d].list, << >>}
    BY <1>0, <1>5, <1>i DEF Fill, Continue, CallType
  <2> QED
    BY <2>1, <2>2 DEF ListsMove
<1>6. ASSUME NEW c \in Clients, Drop(c) \/ Save(c) \/ Cut(c)
      PROVE  ListsMove
  <2>1. registry' = registry /\ call' = [call EXCEPT ![c] = Idle]
    BY <1>6 DEF Drop, Save, Cut, Continue
  <2>2. /\ call'[c].list \in {call[c].list, << >>}
        /\ \A d \in Clients : d # c => call'[d] = call[d]
    BY <1>0, <1>i, <2>1
  <2> QED
    BY <1>c, <2>1, <2>2
<1>10. ASSUME NEW c \in Clients, Load(c)
       PROVE  ListsMove
  <2> DEFINE next == [call[c] EXCEPT !.pc = "introspect",
                                     !.cache = caches[call[c].label]]
  <2>1. next.list = call[c].list
    BY <1>0 DEF CallType
  <2> HIDE DEF next
  <2>2. /\ registry' = registry
        /\ \/ call' = [call EXCEPT ![c] = next]
           \/ call' = [call EXCEPT ![c] = Idle]
    BY <1>10 DEF Load, Continue, next
  <2>3. /\ call'[c].list \in {call[c].list, << >>}
        /\ \A d \in Clients : d # c => call'[d] = call[d]
    BY <1>0, <1>i, <2>1, <2>2
  <2> QED
    BY <1>c, <2>2, <2>3
<1>11. ASSUME NEW c \in Clients, IntrospectOk(c)
       PROVE  ListsMove
  <2> DEFINE next == [call[c] EXCEPT
                        !.pc = "save", !.uri = NoUri, !.old = FALSE,
                        !.cache = [uri |-> call[c].uri, populatedAt |-> clock,
                                   old |-> call[c].old]]
  <2>1. next.list = call[c].list
    BY <1>0 DEF CallType
  <2> HIDE DEF next
  <2>2. registry' = registry /\ call' = [call EXCEPT ![c] = next]
    BY <1>11 DEF IntrospectOk, Continue, next
  <2>3. /\ call'[c].list \in {call[c].list, << >>}
        /\ \A d \in Clients : d # c => call'[d] = call[d]
    BY <1>0, <2>1, <2>2
  <2> QED
    BY <1>c, <2>2, <2>3
<1>12. ASSUME NEW c \in Clients, IntrospectFails(c)
       PROVE  ListsMove
  <2> DEFINE next == [call[c] EXCEPT !.pc = "save", !.uri = NoUri, !.old = FALSE]
  <2>1. next.list = call[c].list
    BY <1>0 DEF CallType
  <2> HIDE DEF next
  <2>2. /\ registry' = registry
        /\ \/ call' = [call EXCEPT ![c] = next]
           \/ call' = [call EXCEPT ![c] = Idle]
    BY <1>12 DEF IntrospectFails, Continue, next
  <2>3. /\ call'[c].list \in {call[c].list, << >>}
        /\ \A d \in Clients : d # c => call'[d] = call[d]
    BY <1>0, <1>i, <2>1, <2>2
  <2> QED
    BY <1>c, <2>2, <2>3
<1>13. ASSUME NEW c \in Clients, NEW l \in Labels, Sweep(c, l)
       PROVE  ListsMove
  <2> DEFINE next == [call[c] EXCEPT !.todo = @ \ {l}]
  <2>1. next.list = call[c].list
    BY <1>0 DEF CallType
  <2> HIDE DEF next
  <2>2. /\ registry' = registry
        /\ \/ call' = [call EXCEPT ![c] = next]
           \/ call' = [call EXCEPT ![c] = Idle]
    BY <1>13 DEF Sweep, Continue, next
  <2>3. /\ call'[c].list \in {call[c].list, << >>}
        /\ \A d \in Clients : d # c => call'[d] = call[d]
    BY <1>0, <1>i, <2>1, <2>2
  <2> QED
    BY <1>c, <2>2, <2>3
<1>7. ASSUME NEW c \in Clients, NEW l \in Labels, Refresh(c, l)
      PROVE  ListsMove
  <2>1. \A d \in Clients : call'[d].list = call[d].list
    BY <1>0, <1>7, OutdateFacts DEF Refresh
  <2> QED
    BY <1>7, <2>1 DEF Refresh, ListsMove
<1>8. ASSUME NEW c \in Clients, RefreshAll(c)
      PROVE  ListsMove
  <2>1. ASSUME NEW d \in Clients
        PROVE  call'[d].list \in {call[d].list, << >>}
    <3>1. CASE d = c
      BY <1>8, <3>1 DEF RefreshAll, Idle
    <3>2. CASE d # c
      <4>1. call'[d] = Outdate(call[d], Labels)
        BY <1>8, <3>2 DEF RefreshAll
      <4> QED
        BY <1>0, <4>1, OutdateFacts
    <3> QED
      BY <3>1, <3>2
  <2> QED
    BY <1>8, <2>1 DEF RefreshAll, ListsMove
<1>9. CASE Tick
  BY <1>9 DEF Tick, ListsMove
<1>14. ASSUME NEW c \in Clients,
              \/ \E l \in Labels, u \in Uris : Add(c, l, u)
              \/ \E l \in Labels : Remove(c, l) \/ Ensure(c, l) \/ Refresh(c, l)
              \/ \E l \in Labels : Sweep(c, l)
       PROVE  ListsMove
  BY <1>1, <1>2, <1>3, <1>7, <1>13, <1>14
<1>15. ASSUME NEW c \in Clients,
              \/ Truncate(c) \/ Fill(c) \/ Drop(c)
              \/ Load(c) \/ IntrospectOk(c) \/ IntrospectFails(c) \/ Save(c)
              \/ RefreshAll(c) \/ Cut(c)
       PROVE  ListsMove
  BY <1>4, <1>5, <1>6, <1>8, <1>10, <1>11, <1>12, <1>15
<1> QED
  BY <1>9, <1>14, <1>15 DEF Next

LEMMA UniqueStep == TypeInv /\ UniqueInv /\ [Next]_vars => UniqueInv'
<1> SUFFICES ASSUME TypeInv, UniqueInv, Next
             PROVE  UniqueInv'
  BY DEF UniqueInv, vars
<1>l. ListsMove
  BY ListsStep
<1>1. NamesOnce(<< >>)
  <2>1. DOMAIN << >> = {}
    OBVIOUS
  <2> QED
    BY <2>1 DEF NamesOnce
<1>2. ASSUME registry # Garbage
      PROVE  registry \in Seq(Connection) /\ NamesOnce(registry)
  BY <1>2, TypeParts DEF UniqueInv
<1>3. registry' # Garbage => NamesOnce(registry')
  BY <1>1, <1>2, <1>l DEF UniqueInv, ListsMove
<1>4. ASSUME NEW c \in Clients
      PROVE  NamesOnce(call'[c].list)
  <2>1. CASE call'[c].list \in {call[c].list, << >>}
    BY <1>1, <2>1 DEF UniqueInv
  <2>2. CASE registry # Garbage
             /\ \E l \in Labels : call'[c].list = Without(registry, l)
    BY <1>2, <2>2, WithoutFacts
  <2>3. CASE registry # Garbage
             /\ \E l \in Labels, u \in Uris :
                  /\ l \notin LabelsOf(registry)
                  /\ call'[c].list = Append(registry, [label |-> l, uri |-> u])
    <3>1. PICK l \in Labels, u \in Uris :
            /\ l \notin LabelsOf(registry)
            /\ call'[c].list = Append(registry, [label |-> l, uri |-> u])
      BY <2>3
    <3> DEFINE e == [label |-> l, uri |-> u]
    <3>2. e \in Connection /\ e.label = l
      BY DEF Connection
    <3> HIDE DEF e
    <3>3. call'[c].list = Append(registry, e)
      BY <3>1 DEF e
    <3> QED
      BY <1>2, <2>3, <3>1, <3>2, <3>3, AppendFacts
  <2> QED
    BY <2>1, <2>2, <2>3, <1>l DEF ListsMove
<1> QED
  BY <1>3, <1>4 DEF UniqueInv

\* However calls overlap and whichever of them die, no label is registered
\* twice: a list is only ever written from one list that was read whole, and
\* the longer of two texts wins or the registry is no JSON at all.
THEOREM LabelsUnique == Spec => []UniqueConnectionLabels
<1>1. Init => UniqueInv
  <2>1. DOMAIN << >> = {}
    OBVIOUS
  <2> QED
    BY <2>1 DEF Init, UniqueInv, NamesOnce, Idle
<1>2. UniqueInv => UniqueConnectionLabels
  BY DEF UniqueInv, NamesOnce, UniqueConnectionLabels
<1> QED
  BY <1>1, <1>2, UniqueStep, TypeInvariant, PTL DEF Spec

-----------------------------------------------------------------------------
(***************************************************************************)
(* The registry is complete while its writers do not overlap.  The one     *)
(* writer there may be has read the whole registry, nobody has changed it  *)
(* since, and it writes what it read with its own change: so what is found *)
(* when it has written is what was added and not deleted.                  *)
(***************************************************************************)
LEMMA RegistryStutter ==
    ASSUME RegistryInv, UNCHANGED <<registry, expected>>, torn => torn',
           ~torn' =>
             \A d \in Clients :
               Writes(call[d]) \/ Writes(call'[d]) =>
                 /\ call'[d].pc = call[d].pc /\ call'[d].label = call[d].label
                 /\ call'[d].uri = call[d].uri /\ call'[d].list = call[d].list
    PROVE  RegistryInv'
<1> SUFFICES ASSUME ~torn'
             PROVE  /\ \A c, d \in Clients :
                         Writes(call'[c]) /\ Writes(call'[d]) => c = d
                    /\ ~Written' => registry' # Garbage
                                      /\ Entries(registry') = expected'
                    /\ \A c \in Clients : InTune(call[c])'
  BY DEF RegistryInv
<1>1. /\ \A c, d \in Clients : Writes(call[c]) /\ Writes(call[d]) => c = d
      /\ ~Written => registry # Garbage /\ Entries(registry) = expected
      /\ \A c \in Clients : InTune(call[c])
  BY DEF RegistryInv
<1>2. \A d \in Clients : Writes(call'[d]) <=> Writes(call[d])
  BY DEF Writes
<1>3. Written' = Written
  BY <1>2 DEF Written
<1>4. \A c \in Clients : InTune(call[c])'
  <2> SUFFICES ASSUME NEW c \in Clients
               PROVE  InTune(call[c])'
    OBVIOUS
  <2>1. CASE Writes(call[c])
    <3>1. /\ call'[c].pc = call[c].pc /\ call'[c].label = call[c].label
          /\ call'[c].uri = call[c].uri /\ call'[c].list = call[c].list
      BY <2>1
    <3>2. InTune(call[c])
      BY <1>1
    <3> QED
      BY <3>1, <3>2 DEF InTune
  <2>2. CASE ~Writes(call[c])
    <3>1. ~Writes(call'[c])
      BY <1>2, <2>2
    <3> QED
      BY <3>1 DEF InTune, Writes
  <2> QED
    BY <2>1, <2>2
<1> QED
  BY <1>1, <1>2, <1>3, <1>4

\* A writer begins where there is none.
LEMMA RegistryBegin ==
    ASSUME TypeInv, RegistryInv, NEW c \in Clients, NEW next,
           Begin(c, next), UNCHANGED <<registry, expected>>,
           registry # Garbage, Writes(next),
           ~torn /\ ~Written => InTune(next)
    PROVE  RegistryInv'
<1>1. CASE torn \/ Written
  BY <1>1 DEF Begin, RegistryInv
<1>2. CASE ~torn /\ ~Written
  <2>1. call'[c] = next /\ \A d \in Clients : d # c => call'[d] = call[d]
    BY TypeParts DEF Begin
  <2>2. \A d \in Clients : ~Writes(call[d])
    BY <1>2 DEF Written
  <2>3. \A d \in Clients : Writes(call'[d]) => d = c
    BY <2>1, <2>2
  <2>4. Written'
    BY <2>1 DEF Written
  <2>5. \A d \in Clients : InTune(call[d])'
    <3> SUFFICES ASSUME NEW d \in Clients
                 PROVE  InTune(call[d])'
      OBVIOUS
    <3>1. CASE d = c
      <4>1. InTune(next)
        BY <1>2
      <4> QED
        BY <2>1, <3>1, <4>1 DEF InTune
    <3>2. CASE d # c
      <4>1. ~Writes(call'[d])
        BY <2>3, <3>2
      <4> QED
        BY <4>1 DEF InTune, Writes
    <3> QED
      BY <3>1, <3>2
  <2> QED
    BY <2>3, <2>4, <2>5 DEF RegistryInv
<1> QED
  BY <1>1, <1>2

\* What a writer knows when nobody has overlapped.
LEMMA OneWriter ==
    ASSUME RegistryInv, ~torn, NEW c \in Clients, Writes(call[c])
    PROVE  InTune(call[c]) /\ \A d \in Clients : d # c => ~Writes(call[d])
BY DEF RegistryInv

LEMMA RegistryTruncate ==
    ASSUME TypeInv, RegistryInv, NEW c \in Clients, Truncate(c)
    PROVE  RegistryInv'
<1> SUFFICES ASSUME ~torn'
             PROVE  RegistryInv'
  BY DEF RegistryInv
<1> DEFINE k == call[c]
           n == call'[c]
<1>1. /\ k.pc \in {"add_open", "delete_open"} /\ ~torn
      /\ registry' = << >> /\ expected' = expected
  BY DEF Truncate, Continue
<1>2. /\ n = [k EXCEPT !.pc = IF k.pc = "add_open" THEN "add_fill"
                              ELSE "delete_fill"]
      /\ \A d \in Clients : d # c => call'[d] = call[d]
  BY TypeParts DEF Truncate, Continue
<1>3. /\ InTune(k)
      /\ \A d \in Clients : d # c => ~Writes(call'[d])
  BY <1>1, <1>2, OneWriter DEF Writes
<1>4. /\ n.pc = IF k.pc = "add_open" THEN "add_fill" ELSE "delete_fill"
      /\ n.label = k.label /\ n.uri = k.uri /\ n.list = k.list
  BY <1>2, TypeParts DEF CallType
<1>5. Writes(n)
  BY <1>1, <1>4 DEF Writes
<1>6. InTune(call[c])'
  BY <1>1, <1>3, <1>4 DEF InTune
<1>7. \A d \in Clients : InTune(call[d])'
  BY <1>3, <1>6 DEF InTune, Writes
<1>8. Written'
  BY <1>5 DEF Written
<1> QED
  BY <1>3, <1>7, <1>8 DEF RegistryInv

LEMMA RegistryFill ==
    ASSUME TypeInv, RegistryInv, NEW c \in Clients, Fill(c)
    PROVE  RegistryInv'
<1> SUFFICES ASSUME ~torn'
             PROVE  RegistryInv'
  BY DEF RegistryInv
<1> DEFINE k == call[c]
<1>1. k.pc \in {"add_fill", "delete_fill"} /\ ~torn
  BY DEF Fill, Continue
<1>2. WellFormed(k) /\ k.list \in Seq(Connection) /\ k.list # Garbage
  BY TypeParts, AbsenceAssumption DEF WellFormed, CallType
<1>3. InTune(k) /\ \A d \in Clients : d # c => ~Writes(call[d])
  BY <1>1, OneWriter DEF Writes
<1>4. registry' = k.list
  BY <1>1, <1>3 DEF InTune, Fill, Overlay
<1>5. /\ ~Writes(call'[c])
      /\ \A d \in Clients : d # c => call'[d] = call[d]
  <2>1. \E next : call' = [call EXCEPT ![c] = next] /\ ~Writes(next)
    <3>1. ~Writes(Idle)
      BY DEF Writes, Idle
    <3>2. ~Writes([k EXCEPT !.pc = "introspect", !.list = << >>])
      BY <1>2 DEF Writes, WellFormed, CallType
    <3>3. ~Writes([k EXCEPT !.pc = "drop", !.list = << >>])
      BY <1>2 DEF Writes, WellFormed, CallType
    <3>4. \/ call' = [call EXCEPT ![c] = Idle]
          \/ call' = [call EXCEPT ![c] =
                        [k EXCEPT !.pc = "introspect", !.list = << >>]]
          \/ call' = [call EXCEPT ![c] =
                        [k EXCEPT !.pc = "drop", !.list = << >>]]
      BY DEF Fill, Continue
    <3> QED
      BY <3>1, <3>2, <3>3, <3>4
  <2>2. PICK next : call' = [call EXCEPT ![c] = next] /\ ~Writes(next)
    BY <2>1
  <2> QED
    BY <2>2, TypeParts
<1>6. \A d \in Clients : ~Writes(call'[d])
  BY <1>3, <1>5
<1>7. Entries(k.list) = expected'
  <2>1. CASE k.pc = "add_fill"
    <3> DEFINE new == [label |-> k.label, uri |-> k.uri]
    <3>1. /\ Entries(k.list) = expected \cup {new}
          /\ k.label \notin LabelsIn(expected)
      BY <1>3, <2>1 DEF InTune
    <3>2. expected' = {e \in expected : e.label # k.label} \cup {new}
      BY <2>1 DEF Fill
    <3>3. {e \in expected : e.label # k.label} = expected
      BY <3>1 DEF LabelsIn
    <3> QED
      BY <3>1, <3>2, <3>3
  <2>2. CASE k.pc = "delete_fill"
    <3>1. Entries(k.list) = {e \in expected : e.label # k.label}
      BY <1>3, <2>2 DEF InTune
    <3>2. expected' = {e \in expected : e.label # k.label}
      BY <2>2 DEF Fill
    <3> QED
      BY <3>1, <3>2
  <2> QED
    BY <1>1, <2>1, <2>2
<1>8. \A d \in Clients : InTune(call[d])'
  BY <1>6 DEF InTune, Writes
<1> QED
  BY <1>2, <1>4, <1>6, <1>7, <1>8 DEF RegistryInv

LEMMA RegistryStep == TypeInv /\ RegistryInv /\ [Next]_vars => RegistryInv'
<1> SUFFICES ASSUME TypeInv, RegistryInv, [Next]_vars
             PROVE  RegistryInv'
  OBVIOUS
<1>0. /\ registry = Garbage \/ registry \in Seq(Connection)
      /\ call \in [Clients -> CallType]
      /\ \A c \in Clients : WellFormed(call[c])
  BY TypeParts
<1>w. ~torn /\ ~Written => Entries(registry) = expected
  BY DEF RegistryInv
<1>c. ASSUME NEW c \in Clients, ~Writes(call[c]), ~Writes(call'[c]),
             \A d \in Clients : d # c => call'[d] = call[d],
             UNCHANGED <<registry, expected>>, torn => torn'
      PROVE  RegistryInv'
  <2>1. \A d \in Clients : Writes(call[d]) \/ Writes(call'[d]) =>
          /\ call'[d].pc = call[d].pc /\ call'[d].label = call[d].label
          /\ call'[d].uri = call[d].uri /\ call'[d].list = call[d].list
    BY <1>c
  <2> QED
    BY <1>c, <2>1, RegistryStutter
<1>1. ASSUME NEW c \in Clients, NEW l \in Labels, NEW u \in Uris, Add(c, l, u)
      PROVE  RegistryInv'
  <2> DEFINE e == [label |-> l, uri |-> u]
             next == [Idle EXCEPT !.pc = "add_open", !.label = l, !.uri = u,
                                  !.list = Append(registry, e)]
  <2>1. /\ registry # Garbage /\ l \notin LabelsOf(registry)
        /\ Begin(c, next) /\ UNCHANGED <<registry, expected>>
    BY <1>1 DEF Add
  <2>2. Entries(Append(registry, e)) = Entries(registry) \cup {e}
    BY <1>0, <2>1, AppendFacts DEF Connection
  <2>3. /\ next.pc = "add_open" /\ next.label = l /\ next.uri = u
        /\ next.list = Append(registry, e)
    BY DEF Idle
  <2>4. Writes(next)
    BY <2>3 DEF Writes
  <2>5. ~torn /\ ~Written => InTune(next)
    BY <1>w, <2>1, <2>2, <2>3 DEF InTune, LabelsOf
  <2> HIDE DEF next
  <2> QED
    BY <2>1, <2>4, <2>5, RegistryBegin
<1>2. ASSUME NEW c \in Clients, NEW l \in Labels, Remove(c, l)
      PROVE  RegistryInv'
  <2> DEFINE next == [Idle EXCEPT !.pc = "delete_open", !.label = l,
                                  !.list = Without(registry, l)]
  <2>1. /\ registry # Garbage
        /\ Begin(c, next) /\ UNCHANGED <<registry, expected>>
    BY <1>2 DEF Remove
  <2>2. Entries(Without(registry, l)) = {e \in Entries(registry) : e.label # l}
    BY <1>0, <2>1, WithoutFacts
  <2>3. /\ next.pc = "delete_open" /\ next.label = l
        /\ next.list = Without(registry, l)
    BY DEF Idle
  <2>4. Writes(next)
    BY <2>3 DEF Writes
  <2>5. ~torn /\ ~Written => InTune(next)
    BY <1>w, <2>1, <2>2, <2>3 DEF InTune
  <2> HIDE DEF next
  <2> QED
    BY <2>1, <2>4, <2>5, RegistryBegin
<1>3. ASSUME NEW c \in Clients, NEW l \in Labels, Ensure(c, l)
      PROVE  RegistryInv'
  <2> DEFINE next == [Idle EXCEPT !.pc = "load", !.label = l,
                                  !.uri = UriOf(registry, l)]
  <2>1. /\ call[c].pc = "idle" /\ call' = [call EXCEPT ![c] = next]
        /\ UNCHANGED <<registry, expected>> /\ (torn => torn')
    BY <1>3 DEF Ensure, Begin
  <2>2. next.pc = "load"
    BY DEF Idle
  <2> HIDE DEF next
  <2>3. ~Writes(call[c]) /\ ~Writes(call'[c])
    BY <1>0, <2>1, <2>2 DEF Writes
  <2>4. \A d \in Clients : d # c => call'[d] = call[d]
    BY <1>0, <2>1
  <2> QED
    BY <1>c, <2>1, <2>3, <2>4
<1>4. ASSUME NEW c \in Clients, Truncate(c)
      PROVE  RegistryInv'
  BY <1>4, RegistryTruncate
<1>5. ASSUME NEW c \in Clients, Fill(c)
      PROVE  RegistryInv'
  BY <1>5, RegistryFill
<1>m. ASSUME NEW c \in Clients, NEW next, Continue(c, next), ~Writes(next),
             ~Writes(call[c]), UNCHANGED <<registry, expected>>
      PROVE  RegistryInv'
  <2>1. /\ call' = [call EXCEPT ![c] = next] /\ (torn => torn')
    BY <1>m DEF Continue
  <2>2. call'[c] = next /\ \A d \in Clients : d # c => call'[d] = call[d]
    BY <1>0, <2>1
  <2> QED
    BY <1>c, <1>m, <2>1, <2>2
<1>i. ~Writes(Idle)
  BY DEF Writes, Idle
<1>6. ASSUME NEW c \in Clients, Drop(c)
      PROVE  RegistryInv'
  <2>1. ~Writes(call[c])
    BY <1>6 DEF Drop, At, Writes
  <2> QED
    BY <1>6, <1>i, <1>m, <2>1 DEF Drop
<1>7. ASSUME NEW c \in Clients, Load(c)
      PROVE  RegistryInv'
  <2> DEFINE next == [call[c] EXCEPT !.pc = "introspect",
                                     !.cache = caches[call[c].label]]
  <2>1. ~Writes(call[c])
    BY <1>7 DEF Load, At, Writes
  <2>2. ~Writes(next)
    BY <1>0 DEF CallType, Writes
  <2>3. /\ Continue(c, next) \/ Continue(c, Idle)
        /\ UNCHANGED <<registry, expected>>
    BY <1>7 DEF Load
  <2> HIDE DEF next
  <2> QED
    BY <1>i, <1>m, <2>1, <2>2, <2>3
<1>8. ASSUME NEW c \in Clients, IntrospectOk(c)
      PROVE  RegistryInv'
  <2> DEFINE next == [call[c] EXCEPT
                        !.pc = "save", !.uri = NoUri, !.old = FALSE,
                        !.cache = [uri |-> call[c].uri, populatedAt |-> clock,
                                   old |-> call[c].old]]
  <2>1. ~Writes(call[c])
    BY <1>8 DEF IntrospectOk, At, Writes
  <2>2. ~Writes(next)
    BY <1>0 DEF CallType, Writes
  <2>3. Continue(c, next) /\ UNCHANGED <<registry, expected>>
    BY <1>8 DEF IntrospectOk
  <2> HIDE DEF next
  <2> QED
    BY <1>m, <2>1, <2>2, <2>3
<1>9. ASSUME NEW c \in Clients, IntrospectFails(c)
      PROVE  RegistryInv'
  <2> DEFINE next == [call[c] EXCEPT !.pc = "save", !.uri = NoUri, !.old = FALSE]
  <2>1. ~Writes(call[c])
    BY <1>9 DEF IntrospectFails, At, Writes
  <2>2. ~Writes(next)
    BY <1>0 DEF CallType, Writes
  <2>3. /\ Continue(c, next) \/ Continue(c, Idle)
        /\ UNCHANGED <<registry, expected>>
    BY <1>9 DEF IntrospectFails
  <2> HIDE DEF next
  <2> QED
    BY <1>i, <1>m, <2>1, <2>2, <2>3
<1>10. ASSUME NEW c \in Clients, Save(c)
       PROVE  RegistryInv'
  <2>1. ~Writes(call[c])
    BY <1>10 DEF Save, At, Writes
  <2> QED
    BY <1>10, <1>i, <1>m, <2>1 DEF Save
<1>11. ASSUME NEW c \in Clients, NEW l \in Labels, Refresh(c, l)
       PROVE  RegistryInv'
  <2>1. /\ call' = [d \in Clients |-> Outdate(call[d], {l})]
        /\ UNCHANGED <<registry, expected, torn>>
    BY <1>11 DEF Refresh
  <2>2. \A d \in Clients :
          /\ call'[d].pc = call[d].pc /\ call'[d].label = call[d].label
          /\ call'[d].uri = call[d].uri /\ call'[d].list = call[d].list
    BY <1>0, <2>1, OutdateFacts
  <2> QED
    BY <2>1, <2>2, RegistryStutter
<1>12. ASSUME NEW c \in Clients, RefreshAll(c)
       PROVE  RegistryInv'
  <2>1. /\ call[c].pc = "idle" /\ call'[c].pc = "sweep"
        /\ \A d \in Clients : d # c => call'[d] = Outdate(call[d], Labels)
        /\ UNCHANGED <<registry, expected, torn>>
    BY <1>12 DEF RefreshAll, At, Idle
  <2>2. \A d \in Clients : d # c =>
          /\ call'[d].pc = call[d].pc /\ call'[d].label = call[d].label
          /\ call'[d].uri = call[d].uri /\ call'[d].list = call[d].list
    BY <1>0, <2>1, OutdateFacts
  <2>3. ~Writes(call[c]) /\ ~Writes(call'[c])
    BY <2>1 DEF Writes
  <2> QED
    BY <2>1, <2>2, <2>3, RegistryStutter
<1>13. ASSUME NEW c \in Clients, NEW l \in Labels, Sweep(c, l)
       PROVE  RegistryInv'
  <2> DEFINE next == [call[c] EXCEPT !.todo = @ \ {l}]
  <2>1. ~Writes(call[c])
    BY <1>13 DEF Sweep, At, Writes
  <2>2. ~Writes(next)
    BY <1>0, <2>1 DEF CallType, Writes
  <2>3. /\ Continue(c, next) \/ Continue(c, Idle)
        /\ UNCHANGED <<registry, expected>>
    BY <1>13 DEF Sweep
  <2> HIDE DEF next
  <2> QED
    BY <1>i, <1>m, <2>1, <2>2, <2>3
<1>14. ASSUME NEW c \in Clients, Cut(c)
       PROVE  RegistryInv'
  <2>1. /\ call' = [call EXCEPT ![c] = Idle]
        /\ torn' = (torn \/ Writes(call[c]))
        /\ UNCHANGED <<registry, expected>>
    BY <1>14 DEF Cut
  <2>2. CASE Writes(call[c])
    BY <2>1, <2>2 DEF RegistryInv
  <2>3. CASE ~Writes(call[c])
    <3>1. call'[c] = Idle /\ \A d \in Clients : d # c => call'[d] = call[d]
      BY <1>0, <2>1
    <3> QED
      BY <1>c, <1>i, <2>1, <2>3, <3>1
  <2> QED
    BY <2>2, <2>3
<1>15. CASE Tick \/ UNCHANGED vars
  BY <1>15, RegistryStutter DEF Tick, vars
<1> QED
  BY <1>1, <1>2, <1>3, <1>4, <1>5, <1>6, <1>7, <1>8, <1>9, <1>10, <1>11,
     <1>12, <1>13, <1>14, <1>15
  DEF Next

LEMMA RegistryInvariant == Spec => []RegistryInv
<1>1. Init => RegistryInv
  <2> SUFFICES ASSUME Init PROVE RegistryInv
    OBVIOUS
  <2>1. Entries(<< >>) = {} /\ << >> \in Seq(Connection)
    BY DEF Entries
  <2>2. \A c \in Clients : ~Writes(call[c])
    BY DEF Init, Writes, Idle
  <2>3. \A c \in Clients : InTune(call[c])
    BY <2>2 DEF InTune, Writes
  <2> QED
    BY <2>1, <2>2, <2>3, AbsenceAssumption DEF Init, RegistryInv
<1> QED
  BY <1>1, RegistryStep, TypeInvariant, PTL DEF Spec

\* As long as no two writers of the registry overlap and none is cut short,
\* the registry holds exactly what was added and not deleted, whatever the
\* calls on the caches and the refreshes do in between.
THEOREM RegistryWhole == Spec => []RegistryComplete
<1>1. RegistryInv => RegistryComplete
  BY DEF RegistryInv, RegistryComplete
<1> QED
  BY <1>1, RegistryInvariant, PTL

-----------------------------------------------------------------------------
(***************************************************************************)
(* The schema caches: what holds of a label as long as no two calls have   *)
(* met on it and none was cut short, whatever happens on the others.       *)
(***************************************************************************)

\* One call at most is on a label that is not crossed.
AloneInv ==
    \A l \in Labels \ crossed :
        \A c, d \in Clients : Touches(call[c], l) /\ Touches(call[d], l) => c = d

\* The cache x of label l is of a connection that is expected.
Belongs(l, x) == x # NoCache => [label |-> l, uri |-> x.uri] \in expected

BelongInv ==
    ~torn =>
      \A l \in Labels \ crossed :
        /\ \/ \E c \in Clients : call[c].pc = "drop" /\ call[c].label = l
           \/ Belongs(l, caches[l])
        /\ \A c \in Clients :
             call[c].label = l =>
               /\ call[c].pc \in {"add_open", "add_fill"} => caches[l] = NoCache
               /\ call[c].pc \in {"load", "introspect"} =>
                    [label |-> l, uri |-> call[c].uri] \in expected
               /\ Belongs(l, call[c].cache)

\* What is old on a label that is not crossed is being swept.
OldInv ==
    \A l \in Labels \ crossed :
        /\ caches[l] # NoCache /\ caches[l].old
             => \E c \in Clients : l \in call[c].todo
        /\ \A c \in Clients :
             call[c].label = l =>
               /\ ~call[c].old
               /\ call[c].cache # NoCache => ~call[c].cache.old

\* No stamp is ahead of the clock.
InThePast(x) == x # NoCache => x.populatedAt <= clock

PastInv ==
    /\ \A l \in Labels : InThePast(caches[l])
    /\ \A c \in Clients : InThePast(call[c].cache)

\* The cache x is at least as recent as y.
AtLeast(x, y) ==
    x # NoCache /\ y # NoCache => x.populatedAt >= y.populatedAt

\* What a call on a label has in hand is as recent as what is in the file.
RecentInv ==
    \A l \in Labels \ crossed : \A c \in Clients :
        call[c].label = l => AtLeast(call[c].cache, caches[l])

-----------------------------------------------------------------------------
(* What a step does to a label. *)

\* What is expected of the label stays.
Keeps(l) ==
    \A u \in Uris : [label |-> l, uri |-> u] \in expected'
                      <=> [label |-> l, uri |-> u] \in expected

\* The calls of others on the label, if any, stay what and where they are.
OthersStay(l, c) ==
    \A d \in Clients : d # c =>
        /\ Touches(call'[d], l) <=> Touches(call[d], l)
        /\ Touches(call[d], l) => call'[d] = call[d]

\* The client goes on as it was as far as the label is concerned ...
GoesOn(l, c) ==
    LET k == call[c]
        n == call'[c]
    IN  /\ caches'[l] = caches[l] /\ Keeps(l)
        /\ n.label = k.label /\ n.uri = k.uri /\ n.cache = k.cache
        /\ n.old = k.old /\ (l \in n.todo <=> l \in k.todo)
        /\ \/ n.pc = k.pc
           \/ k.pc = "add_open" /\ n.pc = "add_fill"
           \/ k.pc = "delete_open" /\ n.pc = "delete_fill"

\* ... has nothing more to do with it ...
Leaves(l, c) ==
    /\ caches'[l] = caches[l] /\ ~Touches(call'[c], l)
    /\ call[c].label = l => call[c].pc # "drop"
    /\ l \notin call[c].todo
    /\ Keeps(l) \/ (call[c].label = l /\ call[c].pc = "add_fill")

\* ... begins a call on it ...
Begins(l, c) ==
    LET n == call'[c]
    IN  /\ ~Busy(l) /\ registry # Garbage
        /\ caches'[l] = caches[l] /\ Keeps(l)
        /\ n.label = l /\ n.cache = NoCache /\ ~n.old /\ n.todo = {}
        /\ \/ n.pc = "delete_open"
           \/ /\ n.pc = "add_open" /\ l \notin LabelsOf(registry)
              /\ Written => torn'
           \/ /\ n.pc = "load"
              /\ [label |-> l, uri |-> n.uri] \in Entries(registry)

\* ... takes a call on it one step further ...
Advances(l, c) ==
    LET k == call[c]
        n == call'[c]
    IN  /\ k.label = l /\ n.label = l /\ l \notin n.todo
        /\ caches'[l] = caches[l]
        /\ \/ /\ k.pc = "add_fill" /\ n.pc = "introspect"
              /\ [label |-> l, uri |-> n.uri] \in expected'
              /\ n.cache = NoCache /\ n.old = k.old
           \/ /\ k.pc = "delete_fill" /\ n.pc = "drop"
              /\ n.cache = NoCache /\ n.old = k.old
           \/ /\ k.pc = "load" /\ n.pc = "introspect" /\ Keeps(l)
              /\ n.cache = caches[l] /\ n.uri = k.uri /\ n.old = k.old
           \/ /\ k.pc = "introspect" /\ n.pc = "save" /\ Keeps(l) /\ ~n.old
              /\ n.cache \in {k.cache, [uri |-> k.uri, populatedAt |-> clock,
                                        old |-> k.old]}

\* ... ends one ...
Ends(l, c) ==
    /\ ~Touches(call'[c], l) /\ Keeps(l)
    /\ \/ /\ call[c].label = l /\ call[c].pc = "save"
          /\ caches'[l] = call[c].cache
       \/ /\ Touches(call[c], l) /\ caches'[l] = NoCache

\* ... or refreshes a label that is at rest.
Refreshes(l, c) ==
    /\ ~Busy(l) /\ Keeps(l) /\ call'[c].label = NoLabel
    /\ \/ caches'[l] = NoCache /\ l \notin call'[c].todo
       \/ /\ caches[l] # NoCache /\ l \in call'[c].todo
          /\ caches'[l] = [caches[l] EXCEPT !.old = TRUE]

Moves(l, c) ==
    /\ OthersStay(l, c)
    /\ \/ GoesOn(l, c) \/ Leaves(l, c) \/ Begins(l, c)
       \/ Advances(l, c) \/ Ends(l, c) \/ Refreshes(l, c)

LEMMA IdleTouchesNothing ==
    ASSUME NEW l \in Labels
    PROVE  ~Touches(Idle, l)
BY AbsenceAssumption DEF Touches, Idle

\* A call on one label does nothing for another.
LEMMA TouchesOne ==
    ASSUME NEW k, WellFormed(k), NEW l \in Labels,
           k.pc # "sweep"
    PROVE  /\ Touches(k, l) <=> k.label = l
           /\ k.todo = {}
BY DEF Touches, WellFormed, Placed

LEMMA BeginMoves ==
    ASSUME TypeInv, NEW c \in Clients, NEW next, Begin(c, next),
           WellFormed(next), next.pc \notin {"sweep", "idle"},
           next.cache = NoCache, ~next.old,
           UNCHANGED <<registry, caches, clock, expected>>,
           registry # Garbage,
           \/ next.pc = "delete_open"
           \/ next.pc = "add_open" /\ next.label \notin LabelsOf(registry)
           \/ /\ next.pc = "load"
              /\ [label |-> next.label, uri |-> next.uri] \in Entries(registry),
           NEW l \in Labels \ crossed'
    PROVE  l \notin crossed /\ Moves(l, c)
<1>1. /\ call[c].pc = "idle" /\ call'[c] = next
      /\ \A d \in Clients : d # c => call'[d] = call[d]
      /\ torn' = (torn \/ (Writes(next) /\ Written))
      /\ crossed' = crossed \cup {m \in Labels : Touches(next, m) /\ Busy(m)}
  BY TypeParts DEF Begin
<1>2. OthersStay(l, c) /\ Keeps(l) /\ caches'[l] = caches[l]
  BY <1>1 DEF OthersStay, Keeps
<1>3. call[c].label = NoLabel /\ call[c].todo = {}
  BY <1>1, TypeParts DEF WellFormed, Placed
<1>4. next.todo = {} /\ (Touches(next, l) <=> next.label = l)
  BY TouchesOne
<1>5. CASE next.label = l
  <2>1. ~Busy(l)
    BY <1>1, <1>4, <1>5
  <2>2. next.pc = "add_open" /\ Written => torn'
    BY <1>1 DEF Writes
  <2>3. Begins(l, c)
    BY <1>1, <1>2, <1>4, <1>5, <2>1, <2>2 DEF Begins
  <2> QED
    BY <1>1, <1>2, <2>3 DEF Moves
<1>6. CASE next.label # l
  <2>1. Leaves(l, c)
    BY <1>1, <1>2, <1>3, <1>4, <1>6, AbsenceAssumption DEF Leaves
  <2> QED
    BY <1>1, <1>2, <2>1 DEF Moves
<1> QED
  BY <1>5, <1>6

\* A step of a call that has begun, and of nobody else.
LEMMA ContinueParts ==
    ASSUME TypeInv, NEW c \in Clients, NEW next, Continue(c, next),
           NEW l \in Labels \ crossed'
    PROVE  /\ l \notin crossed /\ call'[c] = next /\ OthersStay(l, c)
           /\ WellFormed(call[c])
BY TypeParts DEF Continue, OthersStay

\* A client that is idle, or works on another label, leaves this one alone.
LEMMA LeaveMoves ==
    ASSUME NEW c \in Clients, NEW l \in Labels, OthersStay(l, c),
           ~Touches(call[c], l), ~Touches(call'[c], l),
           caches'[l] = caches[l], Keeps(l)
    PROVE  Moves(l, c)
BY DEF Moves, Leaves, Touches

LEMMA FillMoves ==
    ASSUME TypeInv, NEW c \in Clients, Fill(c), NEW l \in Labels \ crossed'
    PROVE  l \notin crossed /\ Moves(l, c)
<1> DEFINE k == call[c]
           n == call'[c]
<1>1. /\ k.pc \in {"add_fill", "delete_fill"} /\ caches' = caches
      /\ \E next : Continue(c, next)
  BY DEF Fill
<1>2. /\ l \notin crossed /\ OthersStay(l, c) /\ WellFormed(k)
  BY <1>1, ContinueParts
<1>3. k \in CallType /\ k.todo = {} /\ (Touches(k, l) <=> k.label = l)
  BY <1>1, <1>2, TouchesOne DEF WellFormed
<1>4. /\ k.pc = "add_fill" =>
           /\ expected' = {e \in expected : e.label # k.label}
                           \cup {[label |-> k.label, uri |-> k.uri]}
           /\ \/ n = [k EXCEPT !.pc = "introspect", !.list = << >>]
              \/ n = Idle
      /\ k.pc = "delete_fill" =>
           /\ expected' = {e \in expected : e.label # k.label}
           /\ n = [k EXCEPT !.pc = "drop", !.list = << >>]
  BY TypeParts DEF Fill, Continue
<1>5. \/ /\ k.pc = "add_fill" /\ n.pc = "introspect" /\ n.label = k.label
         /\ n.uri = k.uri /\ n.cache = k.cache /\ n.old = k.old
         /\ n.todo = k.todo
      \/ k.pc = "add_fill" /\ n = Idle
      \/ /\ k.pc = "delete_fill" /\ n.pc = "drop" /\ n.label = k.label
         /\ n.cache = k.cache /\ n.old = k.old /\ n.todo = k.todo
  BY <1>1, <1>3, <1>4 DEF CallType
<1>6. CASE k.label = l
  <2>1. k.cache = NoCache
    BY <1>1, <1>2 DEF WellFormed, Placed
  <2>2. k.pc = "add_fill" => [label |-> l, uri |-> k.uri] \in expected'
    BY <1>4, <1>6
  <2>3. ASSUME n = Idle
        PROVE  Leaves(l, c)
    <3>1. k.pc = "add_fill"
      BY <1>5, <2>3 DEF Idle
    <3> QED
      BY <1>1, <1>3, <1>6, <2>3, <3>1, IdleTouchesNothing DEF Leaves
  <2>4. ASSUME n # Idle
        PROVE  Advances(l, c)
    BY <1>1, <1>3, <1>5, <1>6, <2>1, <2>2, <2>4 DEF Advances
  <2> QED
    BY <1>2, <2>3, <2>4 DEF Moves
<1>7. CASE k.label # l
  <2>1. Keeps(l)
    <3> SUFFICES ASSUME NEW u \in Uris
                 PROVE  [label |-> l, uri |-> u] \in expected'
                          <=> [label |-> l, uri |-> u] \in expected
      BY DEF Keeps
    <3> DEFINE e == [label |-> l, uri |-> u]
    <3>1. e.label = l /\ e # [label |-> k.label, uri |-> k.uri]
      BY <1>7
    <3> HIDE DEF e
    <3>2. e \in expected' <=> e \in expected
      BY <1>1, <1>4, <1>7, <3>1
    <3> QED
      BY <3>2 DEF e
  <2>2. ~Touches(n, l)
    BY <1>3, <1>5, <1>7, IdleTouchesNothing DEF Touches
  <2> QED
    BY <1>1, <1>2, <1>3, <1>7, <2>1, <2>2, LeaveMoves
<1> QED
  BY <1>6, <1>7

\* The steps of a call on its label's cache.
LEMMA WorkMoves ==
    ASSUME TypeInv, NEW c \in Clients, NEW l \in Labels \ crossed',
           \/ Truncate(c) \/ Load(c) \/ IntrospectOk(c) \/ IntrospectFails(c)
           \/ Save(c) \/ Drop(c)
    PROVE  l \notin crossed /\ Moves(l, c)
<1> DEFINE k == call[c]
           n == call'[c]
<1>1. /\ k.pc \in {"add_open", "delete_open", "load", "introspect", "save",
                     "drop"}
      /\ \E next : Continue(c, next)
      /\ expected' = expected
  BY DEF Truncate, Load, IntrospectOk, IntrospectFails, Save, Drop, At
<1>2. /\ l \notin crossed /\ OthersStay(l, c) /\ WellFormed(k)
  BY <1>1, ContinueParts
<1>3. /\ k \in CallType /\ k.todo = {} /\ (Touches(k, l) <=> k.label = l)
      /\ k.label \in Labels
  BY <1>1, <1>2, TouchesOne DEF WellFormed, Placed
<1>4. Keeps(l)
  BY <1>1 DEF Keeps
<1>i. ~Touches(Idle, l)
  BY IdleTouchesNothing
<1>5. CASE Truncate(c)
  <2>1. /\ caches' = caches /\ k.pc \in {"add_open", "delete_open"}
        /\ n = [k EXCEPT !.pc = IF k.pc = "add_open" THEN "add_fill"
                                ELSE "delete_fill"]
    BY <1>5, TypeParts DEF Truncate, Continue
  <2>2. GoesOn(l, c)
    BY <1>3, <1>4, <2>1 DEF GoesOn, CallType
  <2> QED
    BY <1>2, <2>2 DEF Moves
<1>6. CASE Load(c)
  <2>1. /\ caches' = caches /\ k.pc = "load"
        /\ \/ n = Idle
           \/ n = [k EXCEPT !.pc = "introspect", !.cache = caches[k.label]]
    BY <1>6, TypeParts DEF Load, Continue, At
  <2>2. \/ n = Idle
        \/ /\ n.pc = "introspect" /\ n.label = k.label /\ n.todo = {}
           /\ n.cache = caches[k.label] /\ n.uri = k.uri /\ n.old = k.old
    BY <1>3, <2>1 DEF CallType
  <2>3. CASE n = Idle
    BY <1>2, <1>3, <1>4, <1>i, <2>1, <2>3 DEF Moves, Leaves
  <2>4. CASE n # Idle /\ k.label = l
    BY <1>2, <1>3, <1>4, <2>1, <2>2, <2>4 DEF Moves, Advances
  <2>5. CASE n # Idle /\ k.label # l
    BY <1>2, <1>3, <1>4, <2>1, <2>2, <2>5, LeaveMoves DEF Touches
  <2> QED
    BY <2>3, <2>4, <2>5
<1>7. CASE IntrospectOk(c)
  <2> DEFINE cache == [uri |-> k.uri, populatedAt |-> clock, old |-> k.old]
  <2>1. /\ caches' = caches /\ k.pc = "introspect"
        /\ n = [k EXCEPT !.pc = "save", !.uri = NoUri, !.old = FALSE,
                         !.cache = cache]
    BY <1>7, TypeParts DEF IntrospectOk, Continue, At
  <2>2. /\ n.pc = "save" /\ n.label = k.label /\ n.todo = {}
        /\ n.cache = cache /\ ~n.old
    <3> HIDE DEF cache
    <3> QED
      BY <1>3, <2>1 DEF CallType
  <2>4. CASE k.label = l
    BY <1>2, <1>3, <1>4, <2>1, <2>2, <2>4 DEF Moves, Advances
  <2>5. CASE k.label # l
    BY <1>2, <1>3, <1>4, <2>1, <2>2, <2>5, LeaveMoves DEF Touches
  <2> QED
    BY <2>4, <2>5
<1>8. CASE IntrospectFails(c)
  <2>1. /\ caches' = caches /\ k.pc = "introspect"
        /\ \/ n = Idle
           \/ n = [k EXCEPT !.pc = "save", !.uri = NoUri, !.old = FALSE]
    BY <1>8, TypeParts DEF IntrospectFails, Continue, At
  <2>2. \/ n = Idle
        \/ /\ n.pc = "save" /\ n.label = k.label /\ n.todo = {}
           /\ n.cache = k.cache /\ ~n.old
    BY <1>3, <2>1 DEF CallType
  <2>3. CASE n = Idle
    BY <1>2, <1>3, <1>4, <1>i, <2>1, <2>3 DEF Moves, Leaves
  <2>4. CASE n # Idle /\ k.label = l
    BY <1>2, <1>3, <1>4, <2>1, <2>2, <2>4 DEF Moves, Advances
  <2>5. CASE n # Idle /\ k.label # l
    BY <1>2, <1>3, <1>4, <2>1, <2>2, <2>5, LeaveMoves DEF Touches
  <2> QED
    BY <2>3, <2>4, <2>5
<1>9. CASE Save(c) \/ Drop(c)
  <2>1. /\ n = Idle /\ caches \in [Labels -> Cache \cup {NoCache}]
        /\ \/ k.pc = "save" /\ caches' = [caches EXCEPT ![k.label] = k.cache]
           \/ k.pc = "drop" /\ caches' = [caches EXCEPT ![k.label] = NoCache]
    BY <1>9, TypeParts DEF Save, Drop, Continue, At
  <2>2. CASE k.label = l
    <3>1. Ends(l, c)
      BY <1>3, <1>4, <1>i, <2>1, <2>2 DEF Ends
    <3> QED
      BY <1>2, <3>1 DEF Moves
  <2>3. CASE k.label # l
    <3>1. caches'[l] = caches[l]
      BY <1>3, <2>1, <2>3
    <3> QED
      BY <1>2, <1>3, <1>4, <1>i, <2>1, <2>3, <3>1, LeaveMoves
  <2> QED
    BY <2>2, <2>3
<1> QED
  BY <1>5, <1>6, <1>7, <1>8, <1>9

\* A refresh leaves the calls on other labels, and idle clients, as they are.
LEMMA OutdateStays ==
    ASSUME NEW k, WellFormed(k), NEW ls, NEW l \in Labels
    PROVE  /\ Touches(Outdate(k, ls), l) <=> Touches(k, l)
           /\ k.label \notin ls => Outdate(k, ls) = k
BY OutdateFacts DEF Touches, Outdate

LEMMA RefreshMoves ==
    ASSUME TypeInv, NEW c \in Clients, NEW m \in Labels, Refresh(c, m),
           NEW l \in Labels \ crossed'
    PROVE  l \notin crossed /\ Moves(l, c)
<1>0. \A d \in Clients : WellFormed(call[d])
  BY TypeParts
<1>1. /\ call[c].pc = "idle" /\ expected' = expected
      /\ caches' = [caches EXCEPT ![m] = NoCache]
      /\ \A d \in Clients : call'[d] = Outdate(call[d], {m})
      /\ crossed' = crossed \cup {j \in {m} : Busy(j)}
      /\ caches \in [Labels -> Cache \cup {NoCache}]
  BY TypeParts DEF Refresh, At
<1>2. l \notin crossed /\ Keeps(l) /\ (l = m => ~Busy(l))
  BY <1>1 DEF Keeps
<1>3. call[c] = Idle /\ Idle.label = NoLabel
  BY <1>0, <1>1 DEF WellFormed, Placed, Idle
<1>4. call'[c] = Idle
  BY <1>0, <1>1, <1>3, AbsenceAssumption, OutdateStays
<1>5. OthersStay(l, c)
  <2> SUFFICES ASSUME NEW d \in Clients
               PROVE  /\ Touches(call'[d], l) <=> Touches(call[d], l)
                      /\ Touches(call[d], l) => call'[d] = call[d]
    BY DEF OthersStay
  <2>1. Touches(call'[d], l) <=> Touches(call[d], l)
    BY <1>0, <1>1, OutdateStays
  <2>2. ASSUME Touches(call[d], l)
        PROVE  call'[d] = call[d]
    <3>1. l # m
      BY <1>2, <2>2 DEF Busy
    <3>2. call[d].label # m
      <4>1. CASE call[d].pc = "sweep"
        BY <1>0, <4>1, AbsenceAssumption DEF WellFormed, Placed
      <4>2. CASE call[d].pc # "sweep"
        BY <1>0, <2>2, <3>1, <4>2, TouchesOne
      <4> QED
        BY <4>1, <4>2
    <3> QED
      BY <1>0, <1>1, <3>2, OutdateStays
  <2> QED
    BY <2>1, <2>2
<1>6. CASE l = m
  <2>1. caches'[l] = NoCache /\ l \notin Idle.todo
    BY <1>1, <1>6 DEF Idle
  <2> QED
    BY <1>2, <1>3, <1>4, <1>5, <1>6, <2>1 DEF Moves, Refreshes
<1>7. CASE l # m
  BY <1>1, <1>2, <1>3, <1>4, <1>5, <1>7, IdleTouchesNothing, LeaveMoves
<1> QED
  BY <1>6, <1>7

LEMMA RefreshAllMoves ==
    ASSUME TypeInv, NEW c \in Clients, RefreshAll(c),
           NEW l \in Labels \ crossed'
    PROVE  l \notin crossed /\ Moves(l, c)
<1> DEFINE present == {m \in Labels : caches[m] # NoCache}
<1>0. \A d \in Clients : WellFormed(call[d])
  BY TypeParts
<1>1. /\ call[c].pc = "idle" /\ expected' = expected
      /\ caches' = [m \in Labels |-> IF m \in present
                                     THEN [caches[m] EXCEPT !.old = TRUE]
                                     ELSE NoCache]
      /\ call'[c] = [Idle EXCEPT !.pc = "sweep", !.todo = present]
      /\ \A d \in Clients : d # c => call'[d] = Outdate(call[d], Labels)
      /\ crossed' = crossed \cup {m \in Labels : Busy(m)}
  BY DEF RefreshAll, At
<1>2. l \notin crossed /\ Keeps(l) /\ ~Busy(l)
  BY <1>1 DEF Keeps
<1>3. OthersStay(l, c)
  BY <1>0, <1>1, <1>2, OutdateStays DEF OthersStay, Busy
<1>4. call'[c].label = NoLabel /\ call'[c].todo = present
  BY <1>1 DEF Idle
<1>5. Refreshes(l, c)
  BY <1>1, <1>2, <1>4 DEF Refreshes
<1> QED
  BY <1>2, <1>3, <1>5 DEF Moves

LEMMA SweepMoves ==
    ASSUME TypeInv, NEW c \in Clients, NEW m \in Labels, Sweep(c, m),
           NEW l \in Labels \ crossed'
    PROVE  l \notin crossed /\ Moves(l, c)
<1> DEFINE k == call[c]
           n == call'[c]
<1>1. /\ k.pc = "sweep" /\ m \in k.todo /\ expected' = expected
      /\ caches' = [caches EXCEPT ![m] = NoCache]
      /\ n = IF k.todo = {m} THEN Idle ELSE [k EXCEPT !.todo = k.todo \ {m}]
      /\ \E next : Continue(c, next)
      /\ caches \in [Labels -> Cache \cup {NoCache}]
  BY TypeParts DEF Sweep, Continue, At
<1>2. /\ l \notin crossed /\ OthersStay(l, c) /\ WellFormed(k)
  BY <1>1, ContinueParts
<1>3. k \in CallType /\ k.label = NoLabel /\ Keeps(l)
  BY <1>1, <1>2 DEF WellFormed, Placed, Keeps
<1>4. \/ n = Idle /\ k.todo = {m}
      \/ /\ n.pc = k.pc /\ n.label = k.label /\ n.uri = k.uri
         /\ n.cache = k.cache /\ n.old = k.old /\ n.todo = k.todo \ {m}
  BY <1>1, <1>3 DEF CallType
<1>5. CASE l = m
  <2>1. ~Touches(n, l)
    BY <1>3, <1>4, <1>5, IdleTouchesNothing, AbsenceAssumption DEF Touches
  <2> QED
    BY <1>1, <1>2, <1>3, <1>5, <2>1 DEF Moves, Ends, Touches
<1>6. CASE l # m
  <2>1. caches'[l] = caches[l]
    BY <1>1, <1>6
  <2>2. CASE n = Idle /\ k.todo = {m}
    BY <1>2, <1>3, <1>6, <2>1, <2>2, IdleTouchesNothing, AbsenceAssumption,
       LeaveMoves
    DEF Touches
  <2>3. CASE ~(n = Idle /\ k.todo = {m})
    BY <1>2, <1>3, <1>4, <1>6, <2>1, <2>3 DEF Moves, GoesOn
  <2> QED
    BY <2>2, <2>3
<1> QED
  BY <1>5, <1>6

\* What a step does to a label on which no two calls have met.
LEMMA MoveStep ==
    ASSUME TypeInv, Next, NEW l \in Labels \ crossed'
    PROVE  /\ l \notin crossed
           /\ \/ UNCHANGED <<registry, caches, call, expected, torn>>
              \/ \E c \in Clients : Moves(l, c)
<1>0. \A c \in Clients : WellFormed(call[c])
  BY TypeParts
<1>1. ASSUME NEW c \in Clients, NEW m \in Labels, NEW u \in Uris, Add(c, m, u)
      PROVE  l \notin crossed /\ Moves(l, c)
  <2> DEFINE list == Append(registry, [label |-> m, uri |-> u])
             next == [Idle EXCEPT !.pc = "add_open", !.label = m, !.uri = u,
                                  !.list = list]
  <2>1. /\ registry # Garbage /\ m \notin LabelsOf(registry)
        /\ Begin(c, next) /\ UNCHANGED <<registry, caches, clock, expected>>
    BY <1>1 DEF Add
  <2>2. list \in Seq(Connection)
    BY <2>1, TypeParts, AppendFacts DEF Connection
  <2>3. WellFormed(next)
    BY <2>2, FreshWellFormed
  <2>4. /\ next.pc = "add_open" /\ next.label = m /\ next.cache = NoCache
        /\ ~next.old
    BY DEF Idle
  <2> HIDE DEF next
  <2> QED
    BY <2>1, <2>3, <2>4, BeginMoves
<1>2. ASSUME NEW c \in Clients, NEW m \in Labels, Remove(c, m)
      PROVE  l \notin crossed /\ Moves(l, c)
  <2> DEFINE list == Without(registry, m)
             next == [Idle EXCEPT !.pc = "delete_open", !.label = m,
                                  !.list = list]
  <2>1. /\ registry # Garbage /\ m \in LabelsOf(registry)
        /\ Begin(c, next) /\ UNCHANGED <<registry, caches, clock, expected>>
    BY <1>2 DEF Remove
  <2>2. list \in Seq(Connection)
    BY <2>1, TypeParts, WithoutFacts
  <2>u. PICK u \in Uris : TRUE
    BY <2>1, TypeParts, UriOfFacts
  <2>3. WellFormed(next)
    BY <2>2, <2>u, FreshWellFormed
  <2>4. /\ next.pc = "delete_open" /\ next.cache = NoCache /\ ~next.old
    BY DEF Idle
  <2> HIDE DEF next
  <2> QED
    BY <2>1, <2>3, <2>4, BeginMoves
<1>3. ASSUME NEW c \in Clients, NEW m \in Labels, Ensure(c, m)
      PROVE  l \notin crossed /\ Moves(l, c)
  <2> DEFINE next == [Idle EXCEPT !.pc = "load", !.label = m,
                                  !.uri = UriOf(registry, m)]
  <2>1. /\ registry # Garbage /\ m \in LabelsOf(registry)
        /\ Begin(c, next) /\ UNCHANGED <<registry, caches, clock, expected>>
    BY <1>3 DEF Ensure
  <2>2. /\ UriOf(registry, m) \in Uris
        /\ [label |-> m, uri |-> UriOf(registry, m)] \in Entries(registry)
    BY <2>1, TypeParts, UriOfFacts
  <2>u. << >> \in Seq(Connection)
    OBVIOUS
  <2>3. WellFormed(next)
    BY <2>2, <2>u, FreshWellFormed
  <2>4. /\ next.pc = "load" /\ next.label = m /\ next.cache = NoCache
        /\ ~next.old /\ next.uri = UriOf(registry, m)
    BY DEF Idle
  <2> HIDE DEF next
  <2> QED
    BY <2>1, <2>2, <2>3, <2>4, BeginMoves
<1>4. ASSUME NEW c \in Clients, Cut(c)
      PROVE  l \notin crossed /\ Moves(l, c)
  <2>1. /\ call'[c] = Idle /\ \A d \in Clients : d # c => call'[d] = call[d]
        /\ crossed' = crossed \cup {m \in Labels : Touches(call[c], m)}
        /\ UNCHANGED <<caches, expected>>
    BY <1>4, TypeParts DEF Cut
  <2>2. l \notin crossed /\ ~Touches(call[c], l) /\ ~Touches(call'[c], l)
    BY <2>1, IdleTouchesNothing
  <2>3. OthersStay(l, c) /\ Keeps(l) /\ caches'[l] = caches[l]
    BY <2>1 DEF OthersStay, Keeps
  <2> QED
    BY <2>2, <2>3, LeaveMoves
<1>5. CASE Tick
  BY <1>5 DEF Tick
<1>6. ASSUME NEW c \in Clients,
             \/ \E m \in Labels, u \in Uris : Add(c, m, u)
             \/ \E m \in Labels : Remove(c, m) \/ Ensure(c, m) \/ Refresh(c, m)
             \/ \E m \in Labels : Sweep(c, m)
      PROVE  l \notin crossed /\ Moves(l, c)
  BY <1>1, <1>2, <1>3, <1>6, RefreshMoves, SweepMoves
<1>7. ASSUME NEW c \in Clients,
             \/ Truncate(c) \/ Fill(c) \/ Drop(c)
             \/ Load(c) \/ IntrospectOk(c) \/ IntrospectFails(c) \/ Save(c)
             \/ RefreshAll(c) \/ Cut(c)
      PROVE  l \notin crossed /\ Moves(l, c)
  BY <1>4, <1>7, FillMoves, WorkMoves, RefreshAllMoves
<1> QED
  BY <1>5, <1>6, <1>7 DEF Next

-----------------------------------------------------------------------------
(***************************************************************************)
(* One call at most is on a label that is not crossed, because a second    *)
(* one crosses it when it begins.                                          *)
(***************************************************************************)
LEMMA AloneStep == TypeInv /\ AloneInv /\ [Next]_vars => AloneInv'
<1> SUFFICES ASSUME TypeInv, AloneInv, Next,
                    NEW l \in Labels, l \notin crossed',
                    NEW d \in Clients, NEW e \in Clients,
                    Touches(call'[d], l), Touches(call'[e], l)
             PROVE  d = e
  BY DEF AloneInv, vars, Touches
<1>1. /\ l \notin crossed
      /\ \/ UNCHANGED <<registry, caches, call, expected, torn>>
         \/ \E c \in Clients : Moves(l, c)
  BY MoveStep
<1>2. CASE call' = call
  BY <1>1, <1>2 DEF AloneInv
<1>3. ASSUME NEW c \in Clients, Moves(l, c)
      PROVE  d = e
  <2>1. \A f \in Clients : f # c => (Touches(call'[f], l) => Touches(call[f], l))
    BY <1>3 DEF Moves, OthersStay
  <2>2. Touches(call'[c], l) => Touches(call[c], l) \/ ~Busy(l)
    BY <1>3 DEF Moves, GoesOn, Leaves, Begins, Advances, Ends, Refreshes,
                Touches
  <2> QED
    BY <1>1, <2>1, <2>2 DEF AloneInv, Busy
<1> QED
  BY <1>1, <1>2, <1>3

LEMMA AloneInvariant == Spec => []AloneInv
<1>1. Init => AloneInv
  BY IdleTouchesNothing DEF Init, AloneInv
<1> QED
  BY <1>1, AloneStep, TypeInvariant, PTL DEF Spec

-----------------------------------------------------------------------------
(***************************************************************************)
(* Refreshes.  A cache that is old is in the hands of the refresh that     *)
(* will remove it; a call that works on the label while it is refreshed    *)
(* crosses it.                                                             *)
(***************************************************************************)
LEMMA OldStep == TypeInv /\ AloneInv /\ OldInv /\ [Next]_vars => OldInv'
<1> SUFFICES ASSUME TypeInv, AloneInv, OldInv, Next,
                    NEW l \in Labels, l \notin crossed'
             PROVE  /\ caches'[l] # NoCache /\ caches'[l].old
                         => \E c \in Clients : l \in call'[c].todo
                    /\ \A c \in Clients :
                         call'[c].label = l =>
                           /\ ~call'[c].old
                           /\ call'[c].cache # NoCache => ~call'[c].cache.old
  BY DEF OldInv, vars
<1>1. /\ l \notin crossed
      /\ \/ UNCHANGED <<registry, caches, call, expected, torn>>
         \/ \E c \in Clients : Moves(l, c)
  BY MoveStep
<1>2. /\ caches[l] # NoCache /\ caches[l].old
           => \E c \in Clients : l \in call[c].todo
      /\ \A c \in Clients :
           call[c].label = l =>
             /\ ~call[c].old
             /\ call[c].cache # NoCache => ~call[c].cache.old
  BY <1>1 DEF OldInv
<1>3. CASE UNCHANGED <<caches, call>>
  BY <1>2, <1>3
<1>4. ASSUME NEW c \in Clients, Moves(l, c)
      PROVE  /\ caches'[l] # NoCache /\ caches'[l].old
                  => \E d \in Clients : l \in call'[d].todo
             /\ \A d \in Clients :
                  call'[d].label = l =>
                    /\ ~call'[d].old
                    /\ call'[d].cache # NoCache => ~call'[d].cache.old
  <2> DEFINE k == call[c]
             n == call'[c]
  <2>1. \A d \in Clients : d # c =>
          /\ Touches(call'[d], l) <=> Touches(call[d], l)
          /\ Touches(call[d], l) => call'[d] = call[d]
    BY <1>4 DEF Moves, OthersStay
  <2>2. \A d \in Clients : d # c /\ call'[d].label = l =>
          /\ ~call'[d].old
          /\ call'[d].cache # NoCache => ~call'[d].cache.old
    BY <1>2, <2>1 DEF Touches
  <2>3. \A d \in Clients : d # c /\ l \in call[d].todo => l \in call'[d].todo
    BY <2>1 DEF Touches
  <2>4. l # NoLabel /\ WellFormed(k)
    BY AbsenceAssumption, TypeParts
  <2>5. /\ n.label = l =>
             ~n.old /\ (n.cache # NoCache => ~n.cache.old)
        /\ caches'[l] # NoCache /\ caches'[l].old
             => \E d \in Clients : l \in call'[d].todo
    <3>1. CASE GoesOn(l, c)
      BY <1>2, <2>3, <3>1 DEF GoesOn
    <3>2. CASE Leaves(l, c)
      BY <1>2, <2>3, <3>2 DEF Leaves, Touches
    <3>3. CASE Begins(l, c)
      <4>1. \A d \in Clients : l \notin call[d].todo
        BY <3>3 DEF Begins, Busy, Touches
      <4> QED
        BY <1>2, <3>3, <4>1 DEF Begins
    <3>4. CASE Advances(l, c)
      <4>1. k.label = l /\ l \notin k.todo
        BY <2>4, <3>4 DEF Advances, WellFormed, Placed
      <4>2. caches[l] # NoCache => ~caches[l].old
        <5>1. \A d \in Clients : l \in call[d].todo => d = c
          BY <1>1, <4>1 DEF AloneInv, Touches
        <5> QED
          BY <1>2, <4>1, <5>1
      <4>3. n.cache # NoCache => ~n.cache.old
        <5> DEFINE stamped == [uri |-> k.uri, populatedAt |-> clock,
                               old |-> k.old]
        <5>1. n.cache \in {NoCache, caches[l], k.cache, stamped}
          BY <3>4 DEF Advances
        <5>2. stamped.old = k.old
          OBVIOUS
        <5> HIDE DEF stamped
        <5> QED
          BY <1>2, <4>1, <4>2, <5>1, <5>2
      <4>4. ~n.old /\ caches'[l] = caches[l]
        BY <1>2, <3>4, <4>1 DEF Advances
      <4> QED
        BY <4>2, <4>3, <4>4
    <3>5. CASE Ends(l, c)
      BY <1>2, <3>5 DEF Ends, Touches
    <3>6. CASE Refreshes(l, c)
      BY <2>4, <3>6 DEF Refreshes
    <3> QED
      BY <1>4, <3>1, <3>2, <3>3, <3>4, <3>5, <3>6 DEF Moves
  <2> QED
    BY <2>2, <2>5
<1> QED
  BY <1>1, <1>3, <1>4

\* A refresh of a label on which no two calls meet leaves no cache from
\* before it, in the file or in what a call will save.
THEOREM RefreshesStick == Spec => []RefreshSticks
<1>1. Init => OldInv
  BY DEF Init, OldInv, Idle
<1>2. OldInv => RefreshSticks
  BY DEF OldInv, RefreshSticks, Undisturbed, Busy, Touches
<1> QED
  BY <1>1, <1>2, OldStep, AloneInvariant, TypeInvariant, PTL DEF Spec

-----------------------------------------------------------------------------
(***************************************************************************)
(* Whose caches they are.  While the writers of the registry do not        *)
(* overlap, what a call reads there is expected; the connection of a label *)
(* goes only through a call on it, which removes the cache before it ends. *)
(***************************************************************************)
LEMMA TornStays == [Next]_vars /\ torn => torn'
<1> SUFFICES ASSUME [Next]_vars, torn
             PROVE  torn'
  OBVIOUS
<1>1. ASSUME NEW c \in Clients, NEW l \in Labels,
             \/ \E u \in Uris : Add(c, l, u)
             \/ Remove(c, l) \/ Ensure(c, l) \/ Refresh(c, l) \/ Sweep(c, l)
      PROVE  torn'
  BY <1>1 DEF Add, Remove, Ensure, Begin, Refresh, Sweep, Continue
<1>2. ASSUME NEW c \in Clients, Truncate(c) \/ Fill(c) \/ Drop(c) \/ Load(c)
      PROVE  torn'
  BY <1>2 DEF Truncate, Fill, Drop, Load, Continue
<1>3. ASSUME NEW c \in Clients,
             \/ IntrospectOk(c) \/ IntrospectFails(c) \/ Save(c)
             \/ RefreshAll(c) \/ Cut(c)
      PROVE  torn'
  BY <1>3 DEF IntrospectOk, IntrospectFails, Save, Continue, RefreshAll, Cut
<1>4. CASE Tick \/ UNCHANGED vars
  BY <1>4 DEF Tick, vars
<1> QED
  BY <1>1, <1>2, <1>3, <1>4 DEF Next

\* Whatever is in the registry while its writers do not overlap is expected.
LEMMA ReadIsExpected ==
    ASSUME RegistryInv, ~torn, NEW e \in Entries(registry)
    PROVE  e \in expected
<1>1. CASE ~Written
  BY <1>1 DEF RegistryInv
<1>2. CASE Written
  <2>1. PICK c \in Clients : Writes(call[c])
    BY <1>2 DEF Written
  <2>2. InTune(call[c])
    BY DEF RegistryInv
  <2>3. Entries(<< >>) = {}
    BY DEF Entries
  <2> QED
    BY <2>1, <2>2, <2>3 DEF InTune, Writes
<1> QED
  BY <1>1, <1>2

LEMMA BelongStep ==
    TypeInv /\ RegistryInv /\ AloneInv /\ BelongInv /\ [Next]_vars => BelongInv'
<1> DEFINE Own(l, k) ==
             k.label = l =>
               /\ k.pc \in {"add_open", "add_fill"} => caches[l] = NoCache
               /\ k.pc \in {"load", "introspect"} =>
                    [label |-> l, uri |-> k.uri] \in expected
               /\ Belongs(l, k.cache)
           OwnNext(l, k) ==
             k.label = l =>
               /\ k.pc \in {"add_open", "add_fill"} => caches'[l] = NoCache
               /\ k.pc \in {"load", "introspect"} =>
                    [label |-> l, uri |-> k.uri] \in expected'
               /\ k.cache # NoCache =>
                    [label |-> l, uri |-> k.cache.uri] \in expected'
           FileNext(l) ==
             \/ \E c \in Clients : call'[c].pc = "drop" /\ call'[c].label = l
             \/ /\ caches'[l] # NoCache =>
                     [label |-> l, uri |-> caches'[l].uri] \in expected'
<1> SUFFICES ASSUME TypeInv, RegistryInv, AloneInv, BelongInv, [Next]_vars,
                    ~torn', NEW l \in Labels, l \notin crossed'
             PROVE  FileNext(l) /\ \A c \in Clients : OwnNext(l, call'[c])
  BY DEF BelongInv, Belongs
<1>0. ~torn /\ l # NoLabel /\ \A d \in Clients : WellFormed(call[d])
  BY TornStays, AbsenceAssumption, TypeParts
<1>1. ASSUME l \notin crossed
      PROVE  /\ \/ \E c \in Clients : call[c].pc = "drop" /\ call[c].label = l
                \/ Belongs(l, caches[l])
             /\ \A c \in Clients : Own(l, call[c])
  BY <1>0, <1>1 DEF BelongInv
<1>2. CASE UNCHANGED vars
  BY <1>1, <1>2 DEF vars, Belongs
<1>3. CASE Next
  <2>1. /\ l \notin crossed
        /\ \/ UNCHANGED <<registry, caches, call, expected, torn>>
           \/ \E c \in Clients : Moves(l, c)
    BY <1>3, MoveStep
  <2>2. CASE UNCHANGED <<caches, call, expected>>
    BY <1>1, <2>1, <2>2 DEF Belongs
  <2>3. ASSUME NEW c \in Clients, Moves(l, c)
        PROVE  FileNext(l) /\ \A d \in Clients : OwnNext(l, call'[d])
    <3> DEFINE k == call[c]
               n == call'[c]
    <3>1. \A d \in Clients : d # c =>
            /\ Touches(call'[d], l) <=> Touches(call[d], l)
            /\ Touches(call[d], l) => call'[d] = call[d]
      BY <2>3 DEF Moves, OthersStay
    <3>2. \A d \in Clients : d # c /\ Touches(k, l) => call'[d].label # l
      BY <2>1, <3>1 DEF AloneInv, Touches
    <3>3. \A d \in Clients : d # c /\ call[d].label = l => call'[d] = call[d]
      BY <3>1 DEF Touches
    <3>4. \A d \in Clients : d # c /\ call'[d].label = l =>
            call[d].label = l /\ call'[d] = call[d]
      <4> SUFFICES ASSUME NEW d \in Clients, d # c, call'[d].label = l
                   PROVE  call'[d] = call[d]
        OBVIOUS
      <4> QED
        BY <3>1 DEF Touches
    <3>5. ASSUME Keeps(l), NEW x \in Cache
          PROVE  [label |-> l, uri |-> x.uri] \in expected
                   => [label |-> l, uri |-> x.uri] \in expected'
      BY <3>5 DEF Keeps, Cache
    <3>6. ASSUME Keeps(l), caches'[l] = caches[l]
          PROVE  \A d \in Clients : d # c => OwnNext(l, call'[d])
      <4> SUFFICES ASSUME NEW d \in Clients, d # c, call'[d].label = l
                   PROVE  OwnNext(l, call'[d])
        OBVIOUS
      <4> DEFINE j == call[d]
      <4>1. call'[d] = j /\ j.label = l /\ Own(l, j)
        BY <1>1, <2>1, <3>4
      <4>2. /\ j.cache \in Cache \cup {NoCache}
            /\ j.pc \in {"load", "introspect"} => j.uri \in Uris
        BY <1>0 DEF WellFormed, Placed, CallType
      <4> HIDE DEF j
      <4>3. j.pc \in {"load", "introspect"} =>
              [label |-> l, uri |-> j.uri] \in expected'
        BY <3>6, <4>1, <4>2 DEF Keeps
      <4>4. j.cache # NoCache => [label |-> l, uri |-> j.cache.uri] \in expected'
        BY <3>5, <3>6, <4>1, <4>2 DEF Belongs
      <4> QED
        BY <3>6, <4>1, <4>3, <4>4
    <3>7. caches[l] \in Cache \cup {NoCache}
      BY TypeParts
    <3>8. WellFormed(k) /\ k.cache \in Cache \cup {NoCache}
      BY <1>0 DEF WellFormed, CallType
    <3>9. Touches(k, l) \/ ~Busy(l) =>
            \A d \in Clients : d # c => OwnNext(l, call'[d])
      BY <3>2, <3>4 DEF Busy, Touches
    <3>10. \/ \E d \in Clients : call[d].pc = "drop" /\ call[d].label = l
           \/ caches[l] = NoCache
           \/ [label |-> l, uri |-> caches[l].uri] \in expected
      BY <1>1, <2>1 DEF Belongs
    <3>11. Own(l, k)
      BY <1>1, <2>1
    <3> HIDE DEF Own
    <3>12. CASE GoesOn(l, c)
      <4>1. /\ caches'[l] = caches[l] /\ Keeps(l)
            /\ n.label = k.label /\ n.uri = k.uri /\ n.cache = k.cache
            /\ k.pc = "drop" => n.pc = k.pc
            /\ n.pc \in {"load", "introspect"} => k.pc = n.pc
            /\ n.pc \in {"add_open", "add_fill"} =>
                 k.pc \in {"add_open", "add_fill"}
        BY <3>12 DEF GoesOn
      <4>2. FileNext(l)
        BY <3>3, <3>5, <3>7, <3>10, <4>1
      <4>3. OwnNext(l, n)
        <5> SUFFICES ASSUME n.label = l PROVE OwnNext(l, n)
          OBVIOUS
        <5>1. k.pc \in {"load", "introspect"} => k.uri \in Uris
          BY <3>8 DEF WellFormed, Placed
        <5>2. n.pc \in {"load", "introspect"} =>
                [label |-> l, uri |-> n.uri] \in expected'
          BY <3>11, <4>1, <5>1 DEF Own, Keeps
        <5>3. n.cache # NoCache => [label |-> l, uri |-> n.cache.uri] \in expected'
          BY <3>5, <3>8, <3>11, <4>1 DEF Own, Belongs
        <5> QED
          BY <3>11, <4>1, <5>2, <5>3 DEF Own
      <4> QED
        BY <3>6, <4>1, <4>2, <4>3
    <3>13. CASE Leaves(l, c)
      <4>1. /\ caches'[l] = caches[l] /\ n.label # l
            /\ k.label = l => k.pc # "drop"
            /\ Keeps(l) \/ (k.label = l /\ k.pc = "add_fill")
        BY <3>13 DEF Leaves, Touches
      <4>2. CASE Keeps(l)
        <5>1. FileNext(l)
          BY <3>3, <3>5, <3>7, <3>10, <4>1, <4>2
        <5> QED
          BY <3>6, <4>1, <4>2, <5>1
      <4>3. CASE k.label = l /\ k.pc = "add_fill"
        <5>1. caches'[l] = NoCache
          BY <3>11, <4>1, <4>3 DEF Own
        <5> QED
          BY <3>9, <4>1, <4>3, <5>1 DEF Touches
      <4> QED
        BY <4>1, <4>2, <4>3
    <3>14. CASE Begins(l, c)
      <4>1. /\ ~Busy(l) /\ registry # Garbage
            /\ caches'[l] = caches[l] /\ Keeps(l)
            /\ n.label = l /\ n.cache = NoCache
            /\ \/ n.pc = "delete_open"
               \/ n.pc = "add_open" /\ l \notin LabelsOf(registry) /\ ~Written
               \/ /\ n.pc = "load"
                  /\ [label |-> l, uri |-> n.uri] \in Entries(registry)
        BY <3>14 DEF Begins
      <4>2. \A d \in Clients : call[d].label # l
        BY <4>1 DEF Busy, Touches
      <4>3. /\ caches[l] = NoCache
               \/ [label |-> l, uri |-> caches[l].uri] \in expected
            /\ FileNext(l)
        BY <3>5, <3>7, <3>10, <4>1, <4>2
      <4>4. ASSUME n.pc = "add_open"
            PROVE  caches'[l] = NoCache
        <5>1. Entries(registry) = expected /\ l \notin LabelsIn(expected)
          BY <1>0, <4>1, <4>4 DEF RegistryInv, LabelsOf
        <5>2. \A u : [label |-> l, uri |-> u] \notin expected
          BY <5>1 DEF LabelsIn
        <5> QED
          BY <4>1, <4>3, <5>2
      <4>5. ASSUME n.pc = "load"
            PROVE  [label |-> l, uri |-> n.uri] \in expected'
        <5> DEFINE e == [label |-> l, uri |-> n.uri]
        <5>1. e \in Entries(registry) /\ registry \in Seq(Connection)
          BY <4>1, <4>5, TypeParts
        <5>2. e.uri = n.uri /\ e \in Connection
          BY <5>1 DEF Entries
        <5>3. e \in expected
          BY <1>0, <5>1, ReadIsExpected
        <5>4. n.uri \in Uris
          <6> HIDE DEF e
          <6> QED
            BY <5>2 DEF Connection
        <5> QED
          BY <4>1, <5>3, <5>4 DEF Keeps
      <4>6. OwnNext(l, n)
        BY <4>1, <4>4, <4>5
      <4> QED
        BY <3>9, <4>1, <4>3, <4>6
    <3>15. CASE Advances(l, c)
      <4>1. k.label = l /\ n.label = l /\ caches'[l] = caches[l]
        BY <3>15 DEF Advances
      <4>2. \A d \in Clients : d # c => OwnNext(l, call'[d])
        BY <3>9, <4>1 DEF Touches
      <4>3. CASE k.pc = "add_fill"
        <5>1. caches'[l] = NoCache
          BY <3>11, <4>1, <4>3 DEF Own
        <5>2. /\ n.pc = "introspect" /\ n.cache = NoCache
              /\ [label |-> l, uri |-> n.uri] \in expected'
          BY <3>15, <4>3 DEF Advances
        <5> QED
          BY <4>2, <5>1, <5>2
      <4>4. CASE k.pc = "delete_fill"
        <5>1. n.pc = "drop" /\ n.cache = NoCache
          BY <3>15, <4>4 DEF Advances
        <5> QED
          BY <4>1, <4>2, <5>1
      <4>5. CASE k.pc \in {"load", "introspect"}
        <5>1. /\ Keeps(l)
              /\ \/ n.pc = "introspect" /\ n.uri = k.uri /\ n.cache = caches[l]
                 \/ /\ n.pc = "save"
                    /\ n.cache \in {k.cache, [uri |-> k.uri, populatedAt |-> clock,
                                              old |-> k.old]}
          BY <3>15, <4>5 DEF Advances
        <5>2. \A d \in Clients : call[d].label = l => d = c
          BY <2>1, <4>1 DEF AloneInv, Touches
        <5>3. caches[l] = NoCache
                \/ [label |-> l, uri |-> caches[l].uri] \in expected
          BY <3>10, <4>5, <5>2
        <5>4. FileNext(l)
          BY <3>5, <3>7, <4>1, <5>1, <5>3
        <5>5. /\ k.uri \in Uris
              /\ [label |-> l, uri |-> k.uri] \in expected'
          BY <3>8, <3>11, <4>1, <4>5, <5>1 DEF Own, Keeps, WellFormed, Placed
        <5>6. n.cache # NoCache => [label |-> l, uri |-> n.cache.uri] \in expected'
          <6> DEFINE stamped == [uri |-> k.uri, populatedAt |-> clock,
                                 old |-> k.old]
          <6>1. n.cache \in {caches[l], k.cache, stamped}
            BY <5>1
          <6>2. stamped.uri = k.uri
            OBVIOUS
          <6> HIDE DEF stamped
          <6>3. k.cache # NoCache =>
                  [label |-> l, uri |-> k.cache.uri] \in expected
            BY <3>11, <4>1 DEF Own, Belongs
          <6> QED
            BY <3>5, <3>7, <3>8, <5>1, <5>3, <5>5, <6>1, <6>2, <6>3
        <5>7. OwnNext(l, n)
          BY <5>1, <5>5, <5>6
        <5> QED
          BY <4>2, <5>4, <5>7
      <4>6. k.pc \in {"add_fill", "delete_fill", "load", "introspect"}
        BY <3>15 DEF Advances
      <4> QED
        BY <4>3, <4>4, <4>5, <4>6
    <3>16. CASE Ends(l, c)
      <4>1. /\ Touches(k, l) /\ n.label # l /\ Keeps(l)
            /\ \/ caches'[l] = NoCache
               \/ k.label = l /\ caches'[l] = k.cache
        BY <3>16 DEF Ends, Touches
      <4>2. FileNext(l)
        BY <3>5, <3>8, <3>11, <4>1 DEF Own, Belongs
      <4> QED
        BY <3>9, <4>1, <4>2
    <3>17. CASE Refreshes(l, c)
      <4>1. /\ ~Busy(l) /\ Keeps(l) /\ n.label # l
            /\ \/ caches'[l] = NoCache
               \/ /\ caches[l] # NoCache
                  /\ caches'[l] = [caches[l] EXCEPT !.old = TRUE]
        BY <1>0, <3>17 DEF Refreshes
      <4>2. caches'[l] = NoCache
              \/ (caches[l] # NoCache /\ caches'[l].uri = caches[l].uri)
        BY <3>7, <4>1 DEF Cache
      <4>3. \A d \in Clients : call[d].label # l
        BY <4>1 DEF Busy, Touches
      <4>4. FileNext(l)
        BY <3>5, <3>7, <3>10, <4>1, <4>2, <4>3
      <4> QED
        BY <3>9, <4>1, <4>4
    <3> QED
      BY <2>3, <3>12, <3>13, <3>14, <3>15, <3>16, <3>17 DEF Moves
  <2> QED
    BY <2>1, <2>2, <2>3
<1> QED
  BY <1>2, <1>3

\* As long as the writers of the registry do not overlap, the cache of a
\* label on which no two calls have met is that of a connection that was
\* added and not deleted, and describes its database.
THEOREM CachesBelong == Spec => []CacheBelongs
<1>1. Init => BelongInv
  BY AbsenceAssumption DEF Init, BelongInv, Belongs, Idle
<1>2. BelongInv /\ TypeInv => CacheBelongs
  <2> SUFFICES ASSUME BelongInv, ~torn, NEW l \in Labels, Undisturbed(l),
                      caches[l] # NoCache
               PROVE  [label |-> l, uri |-> caches[l].uri] \in expected
    BY DEF CacheBelongs
  <2>1. \A c \in Clients : call[c].label # l
    BY DEF Undisturbed, Busy, Touches
  <2> QED
    BY <2>1 DEF BelongInv, Belongs, Undisturbed
<1> QED
  BY <1>1, <1>2, BelongStep, RegistryInvariant, AloneInvariant, TypeInvariant,
     PTL
  DEF Spec

-----------------------------------------------------------------------------
(***************************************************************************)
(* Time.  No stamp is ahead of the clock, so a schema that is read from    *)
(* the database now is as recent as any cache, and a call that falls back  *)
(* on a cache has the one that is still there, unless two calls meet.      *)
(***************************************************************************)
LEMMA PastStep == TypeInv /\ PastInv /\ [Next]_vars => PastInv'
<1> DEFINE Past(x) == x # NoCache => x.populatedAt <= clock'
<1> SUFFICES ASSUME TypeInv, PastInv, [Next]_vars
             PROVE  /\ \A l \in Labels : Past(caches'[l])
                    /\ \A c \in Clients : Past(call'[c].cache)
  BY DEF PastInv, InThePast
<1>0. /\ caches \in [Labels -> Cache \cup {NoCache}]
      /\ clock \in Nat
      /\ call \in [Clients -> CallType]
      /\ \A c \in Clients : WellFormed(call[c])
      /\ \A l \in Labels : caches[l] \in Cache \cup {NoCache}
      /\ \A c \in Clients : call[c].cache \in Cache \cup {NoCache}
      /\ \A x \in Cache : x.populatedAt \in Nat
  BY TypeParts DEF CallType, Cache
<1>p. /\ \A l \in Labels : caches[l] # NoCache => caches[l].populatedAt <= clock
      /\ \A c \in Clients :
           call[c].cache # NoCache => call[c].cache.populatedAt <= clock
  BY DEF PastInv, InThePast
<1>i. Idle.cache = NoCache
  BY DEF Idle
<1>c. ASSUME NEW c \in Clients, NEW next, call' = [call EXCEPT ![c] = next],
             clock' = clock,
             next.cache # NoCache => next.cache.populatedAt <= clock,
             NEW l \in Labels,
             \/ caches' = caches
             \/ caches' = [caches EXCEPT ![l] = NoCache]
             \/ caches' = [caches EXCEPT ![l] = call[c].cache]
      PROVE  /\ \A m \in Labels : Past(caches'[m])
             /\ \A d \in Clients : Past(call'[d].cache)
  <2>1. call'[c] = next /\ \A d \in Clients : d # c => call'[d] = call[d]
    BY <1>0, <1>c
  <2>2. \A m \in Labels : caches'[m] \in {caches[m], NoCache, call[c].cache}
    BY <1>0, <1>c
  <2> QED
    BY <1>p, <1>c, <2>1, <2>2
<1>1. ASSUME NEW c \in Clients, NEW l \in Labels,
             \/ \E u \in Uris : Add(c, l, u)
             \/ Remove(c, l) \/ Ensure(c, l)
      PROVE  /\ \A m \in Labels : Past(caches'[m])
             /\ \A d \in Clients : Past(call'[d].cache)
  <2>1. \E next : Begin(c, next) /\ next.cache = NoCache
    <3>1. ASSUME NEW u \in Uris, Add(c, l, u)
          PROVE  \E next : Begin(c, next) /\ next.cache = NoCache
      <4> DEFINE next == [Idle EXCEPT
                            !.pc = "add_open", !.label = l, !.uri = u,
                            !.list = Append(registry, [label |-> l, uri |-> u])]
      <4>1. Begin(c, next)
        BY <3>1 DEF Add
      <4>2. next.cache = NoCache
        BY DEF Idle
      <4> HIDE DEF next
      <4> QED
        BY <4>1, <4>2
    <3>2. ASSUME Remove(c, l)
          PROVE  \E next : Begin(c, next) /\ next.cache = NoCache
      <4> DEFINE next == [Idle EXCEPT !.pc = "delete_open", !.label = l,
                                      !.list = Without(registry, l)]
      <4>1. Begin(c, next)
        BY <3>2 DEF Remove
      <4>2. next.cache = NoCache
        BY DEF Idle
      <4> HIDE DEF next
      <4> QED
        BY <4>1, <4>2
    <3>3. ASSUME Ensure(c, l)
          PROVE  \E next : Begin(c, next) /\ next.cache = NoCache
      <4> DEFINE next == [Idle EXCEPT !.pc = "load", !.label = l,
                                      !.uri = UriOf(registry, l)]
      <4>1. Begin(c, next)
        BY <3>3 DEF Ensure
      <4>2. next.cache = NoCache
        BY DEF Idle
      <4> HIDE DEF next
      <4> QED
        BY <4>1, <4>2
    <3> QED
      BY <1>1, <3>1, <3>2, <3>3
  <2>2. clock' = clock /\ caches' = caches
    BY <1>1 DEF Add, Remove, Ensure
  <2> QED
    BY <1>c, <2>1, <2>2 DEF Begin
<1>2. ASSUME NEW c \in Clients,
             Truncate(c) \/ Fill(c) \/ IntrospectFails(c) \/ Cut(c)
      PROVE  /\ \A m \in Labels : Past(caches'[m])
             /\ \A d \in Clients : Past(call'[d].cache)
  <2>1. /\ clock' = clock /\ caches' = caches
        /\ \A d \in Clients : d # c => call'[d] = call[d]
        /\ call'[c].cache \in {call[c].cache, NoCache}
    <3>1. CASE Truncate(c)
      BY <1>0, <3>1 DEF Truncate, Continue, CallType
    <3>2. CASE Fill(c)
      <4> DEFINE warm == [call[c] EXCEPT !.pc = "introspect", !.list = << >>]
                 drop == [call[c] EXCEPT !.pc = "drop", !.list = << >>]
      <4>1. /\ clock' = clock /\ caches' = caches
            /\ \E next \in {warm, drop, Idle} : call' = [call EXCEPT ![c] = next]
        BY <3>2 DEF Fill, Continue
      <4>2. \A next \in {warm, drop, Idle} : next.cache \in {call[c].cache, NoCache}
        BY <1>0, <1>i DEF CallType
      <4> HIDE DEF warm, drop
      <4> QED
        BY <1>0, <4>1, <4>2
    <3>3. CASE IntrospectFails(c)
      BY <1>0, <1>i, <3>3 DEF IntrospectFails, Continue, CallType
    <3>4. CASE Cut(c)
      BY <1>0, <1>i, <3>4 DEF Cut
    <3> QED
      BY <1>2, <3>1, <3>2, <3>3, <3>4
  <2> QED
    BY <1>p, <2>1
<1>3. ASSUME NEW c \in Clients, Load(c)
      PROVE  /\ \A m \in Labels : Past(caches'[m])
             /\ \A d \in Clients : Past(call'[d].cache)
  <2>1. call[c].label \in Labels
    BY <1>0, <1>3, AtWork DEF Load, At
  <2>2. /\ clock' = clock /\ caches' = caches
        /\ \A d \in Clients : d # c => call'[d] = call[d]
        /\ call'[c].cache \in {caches[call[c].label], NoCache}
    BY <1>0, <1>3, <1>i DEF Load, Continue, CallType
  <2> QED
    BY <1>p, <2>1, <2>2
<1>4. ASSUME NEW c \in Clients, IntrospectOk(c)
      PROVE  /\ \A m \in Labels : Past(caches'[m])
             /\ \A d \in Clients : Past(call'[d].cache)
  <2> DEFINE stamped == [uri |-> call[c].uri, populatedAt |-> clock,
                         old |-> call[c].old]
  <2>1. stamped.populatedAt = clock
    OBVIOUS
  <2> HIDE DEF stamped
  <2>2. /\ clock' = clock /\ caches' = caches
        /\ \A d \in Clients : d # c => call'[d] = call[d]
        /\ call'[c].cache = stamped
    BY <1>0, <1>4 DEF IntrospectOk, Continue, CallType, stamped
  <2> QED
    BY <1>0, <1>p, <2>1, <2>2
<1>5. ASSUME NEW c \in Clients, Save(c) \/ Drop(c)
      PROVE  /\ \A m \in Labels : Past(caches'[m])
             /\ \A d \in Clients : Past(call'[d].cache)
  <2>1. call[c].label \in Labels
    BY <1>0, <1>5, AtWork DEF Save, Drop, At
  <2>2. /\ clock' = clock /\ call' = [call EXCEPT ![c] = Idle]
        /\ \/ caches' = [caches EXCEPT ![call[c].label] = NoCache]
           \/ caches' = [caches EXCEPT ![call[c].label] = call[c].cache]
    BY <1>5 DEF Save, Drop, Continue
  <2> QED
    BY <1>c, <1>i, <2>1, <2>2
<1>6. ASSUME NEW c \in Clients, NEW l \in Labels, Sweep(c, l)
      PROVE  /\ \A m \in Labels : Past(caches'[m])
             /\ \A d \in Clients : Past(call'[d].cache)
  <2>1. /\ clock' = clock /\ caches' = [caches EXCEPT ![l] = NoCache]
        /\ \A d \in Clients : d # c => call'[d] = call[d]
        /\ call'[c].cache \in {call[c].cache, NoCache}
    BY <1>0, <1>6, <1>i DEF Sweep, Continue, CallType
  <2> QED
    BY <1>0, <1>p, <2>1
<1>7. ASSUME NEW c \in Clients, NEW l \in Labels, Refresh(c, l)
      PROVE  /\ \A m \in Labels : Past(caches'[m])
             /\ \A d \in Clients : Past(call'[d].cache)
  <2>1. /\ clock' = clock /\ caches' = [caches EXCEPT ![l] = NoCache]
        /\ \A d \in Clients : call'[d] = Outdate(call[d], {l})
    BY <1>7 DEF Refresh
  <2>2. \A d \in Clients : Past(call'[d].cache)
    BY <1>0, <1>p, <2>1, OutdateFacts
  <2> QED
    BY <1>0, <1>p, <2>1, <2>2
<1>8. ASSUME NEW c \in Clients, RefreshAll(c)
      PROVE  /\ \A m \in Labels : Past(caches'[m])
             /\ \A d \in Clients : Past(call'[d].cache)
  <2>1. /\ clock' = clock /\ call'[c].cache = NoCache
        /\ \A d \in Clients : d # c => call'[d] = Outdate(call[d], Labels)
        /\ \A m \in Labels :
             \/ caches'[m] = NoCache
             \/ caches[m] # NoCache /\ caches'[m] = [caches[m] EXCEPT !.old = TRUE]
    BY <1>8 DEF RefreshAll, Idle
  <2>2. \A d \in Clients : Past(call'[d].cache)
    BY <1>0, <1>p, <2>1, OutdateFacts
  <2>3. ASSUME NEW m \in Labels
        PROVE  Past(caches'[m])
    BY <1>0, <1>p, <2>1 DEF Cache
  <2> QED
    BY <2>2, <2>3
<1>9. CASE Tick
  BY <1>0, <1>p, <1>9 DEF Tick
<1>10. CASE UNCHANGED vars
  BY <1>p, <1>10 DEF vars
<1> QED
  BY <1>1, <1>2, <1>3, <1>4, <1>5, <1>6, <1>7, <1>8, <1>9, <1>10 DEF Next

LEMMA PastInvariant == Spec => []PastInv
<1>1. Init => PastInv
  BY DEF Init, PastInv, InThePast, Idle
<1> QED
  BY <1>1, PastStep, TypeInvariant, PTL DEF Spec

\* A step leaves on an uncrossed label a cache that is as recent as the one
\* it found, if there are both, and calls that have one as recent as that.
LEMMA RecentMove ==
    ASSUME TypeInv, AloneInv, PastInv, RecentInv, NEW l \in Labels \ crossed,
           NEW c \in Clients, Moves(l, c)
    PROVE  /\ AtLeast(caches'[l], caches[l])
           /\ \A d \in Clients :
                call'[d].label = l => AtLeast(call'[d].cache, caches'[l])
<1> DEFINE k == call[c]
           n == call'[c]
           x == caches[l]
           y == caches'[l]
           Safe(d) == call'[d].label = l => AtLeast(call'[d].cache, y)
<1>0. /\ x \in Cache \cup {NoCache} /\ clock \in Nat
      /\ \A z \in Cache : z.populatedAt \in Nat
      /\ l # NoLabel
  BY TypeParts, AbsenceAssumption DEF Cache
<1>1. \A d \in Clients : d # c /\ call'[d].label = l =>
        call[d].label = l /\ call'[d] = call[d] /\ ~Touches(k, l) /\ Busy(l)
  <2> SUFFICES ASSUME NEW d \in Clients, d # c, call'[d].label = l
               PROVE  /\ call[d].label = l /\ call'[d] = call[d]
                      /\ ~Touches(k, l) /\ Busy(l)
    OBVIOUS
  <2>1. Touches(call[d], l) /\ call'[d] = call[d]
    BY DEF Moves, OthersStay, Touches
  <2> QED
    BY <2>1 DEF AloneInv, Busy
<1>2. \A d \in Clients : call[d].label = l => AtLeast(call[d].cache, x)
  BY DEF RecentInv
<1>3. AtLeast(x, x) /\ AtLeast(NoCache, x) /\ AtLeast(x, NoCache)
  BY <1>0 DEF AtLeast
<1>4. y = x => /\ AtLeast(y, x)
               /\ \A d \in Clients : d # c => Safe(d)
  BY <1>1, <1>2, <1>3
<1>5. Touches(k, l) \/ ~Busy(l) => \A d \in Clients : d # c => Safe(d)
  BY <1>1
<1>6. CASE GoesOn(l, c)
  BY <1>2, <1>4, <1>6 DEF GoesOn
<1>7. CASE Leaves(l, c)
  BY <1>4, <1>7 DEF Leaves, Touches
<1>8. CASE Begins(l, c)
  BY <1>4, <1>8 DEF Begins, AtLeast
<1>9. CASE Advances(l, c)
  <2> DEFINE stamped == [uri |-> k.uri, populatedAt |-> clock, old |-> k.old]
  <2>1. /\ y = x /\ k.label = l
        /\ n.cache \in {NoCache, x, k.cache, stamped}
    BY <1>9 DEF Advances
  <2>2. AtLeast(stamped, x)
    <3>1. stamped.populatedAt = clock
      OBVIOUS
    <3> HIDE DEF stamped
    <3> QED
      BY <1>0, <3>1 DEF PastInv, InThePast, AtLeast
  <2> HIDE DEF stamped
  <2>3. AtLeast(n.cache, y)
    BY <1>2, <1>3, <2>1, <2>2 DEF AtLeast
  <2> QED
    BY <1>4, <2>1, <2>3
<1>10. CASE Ends(l, c)
  <2>1. /\ Touches(k, l) /\ n.label # l
        /\ \/ y = NoCache
           \/ k.label = l /\ y = k.cache
    BY <1>10 DEF Ends, Touches
  <2> QED
    BY <1>2, <1>5, <2>1 DEF AtLeast
<1>11. CASE Refreshes(l, c)
  <2>1. /\ ~Busy(l) /\ n.label # l
        /\ y = NoCache \/ (x # NoCache /\ y = [x EXCEPT !.old = TRUE])
    BY <1>0, <1>11 DEF Refreshes
  <2>2. AtLeast(y, x)
    <3>1. CASE y = NoCache
      BY <3>1 DEF AtLeast
    <3>2. CASE x # NoCache /\ y = [x EXCEPT !.old = TRUE]
      <4>1. y.populatedAt = x.populatedAt
        BY <1>0, <3>2 DEF Cache
      <4> QED
        BY <1>0, <3>2, <4>1 DEF AtLeast
    <3> QED
      BY <2>1, <3>1, <3>2
  <2> QED
    BY <1>5, <2>1, <2>2
<1> QED
  BY <1>6, <1>7, <1>8, <1>9, <1>10, <1>11 DEF Moves

LEMMA RecentStep ==
    TypeInv /\ AloneInv /\ PastInv /\ RecentInv /\ [Next]_vars
      => /\ RecentInv'
         /\ \A l \in Labels \ crossed' : AtLeast(caches'[l], caches[l])
<1> SUFFICES ASSUME TypeInv, AloneInv, PastInv, RecentInv, [Next]_vars,
                    NEW l \in Labels, l \notin crossed'
             PROVE  /\ \A c \in Clients :
                         call'[c].label = l => AtLeast(call'[c].cache, caches'[l])
                    /\ AtLeast(caches'[l], caches[l])
  BY DEF RecentInv, AtLeast
<1>1. AtLeast(caches[l], caches[l])
  <2>1. caches[l] \in Cache \cup {NoCache}
    BY TypeParts
  <2> QED
    BY <2>1 DEF AtLeast, Cache
<1>2. CASE l \notin crossed /\ UNCHANGED <<caches, call>>
  BY <1>1, <1>2 DEF RecentInv
<1>3. l \notin crossed
        /\ (UNCHANGED <<caches, call>> \/ \E c \in Clients : Moves(l, c))
  BY MoveStep DEF vars
<1>4. ASSUME NEW c \in Clients, Moves(l, c)
      PROVE  /\ \A d \in Clients :
                  call'[d].label = l => AtLeast(call'[d].cache, caches'[l])
             /\ AtLeast(caches'[l], caches[l])
  BY <1>3, <1>4, RecentMove
<1> QED
  BY <1>2, <1>3, <1>4

\* A cache is only ever replaced by one at least as recent, whatever fails
\* and whatever the database answers, unless two calls meet on its label.
THEOREM CachesMoveForward == Spec => CacheNeverGoesBack
<1>1. Init => RecentInv
  BY DEF Init, RecentInv, AtLeast, Idle
<1>2. TypeInv /\ AloneInv /\ PastInv /\ RecentInv /\ [Next]_vars
        => [\A l \in Labels :
              l \notin crossed' /\ caches[l] # NoCache /\ caches'[l] # NoCache
                => caches'[l].populatedAt >= caches[l].populatedAt]_vars
  BY RecentStep DEF AtLeast
<1>3. TypeInv /\ AloneInv /\ PastInv /\ RecentInv /\ [Next]_vars => RecentInv'
  BY RecentStep
<1> QED
  BY <1>1, <1>2, <1>3, TypeInvariant, AloneInvariant, PastInvariant, PTL
  DEF Spec, CacheNeverGoesBack

=============================================================================
