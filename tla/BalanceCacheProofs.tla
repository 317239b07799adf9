--------------------------- MODULE BalanceCacheProofs ---------------------------
(***************************************************************************)
(* Proofs about BalanceCache: for any number of changes, users and         *)
(* recharges, the cached balances are never older than what was stored     *)
(* before and never partial, except after the overtakings and              *)
(* disappearances its histories name.                                      *)
(***************************************************************************)
EXTENDS BalanceCache, TLAPS

shared == <<mars, sent, cache, floor, overtaken, vanished>>

LEMMA Kinds ==
  /\ Message \subseteq Actor /\ User \subseteq Actor /\ Buyer \subseteq Actor
  /\ Message \cap User = {} /\ Message \cap Buyer = {} /\ User \cap Buyer = {}
  /\ TicketChange \subseteq Message
  /\ Last \in Nat
BY CacheAssumption DEF Actor

LEMMA ProvidedType == \A m \in Message : Provided(m) \in Balances
BY Kinds DEF Provided, Balances, Message

LEMMA MergedType ==
  \A b, c \in Balances :
    /\ Merged(b, c) \in Balances
    /\ \A a \in Kept : /\ b[a] # 0 => Merged(b, c)[a] = b[a]
                       /\ b[a] = 0 => Merged(b, c)[a] = c[a]
    /\ \A a \in Attr : Merged(b, c)[a] \in {0, b[a], c[a]}
BY Kinds DEF Merged, Balances, Attr, Kept

LEMMA NothingType == Nothing \in Balances /\ \A a \in Attr : Nothing[a] = 0
BY Kinds DEF Nothing, Balances, Attr

-----------------------------------------------------------------------------
(* Types *)

LEMMA GoesType ==
  ASSUME TypeOK, NEW o \in Actor, NEW to \in Labels, Goes(o, to)
  PROVE  /\ pc' \in [Actor -> Labels]
         /\ new' \in [Actor -> Balances] /\ old' \in [Actor -> Balances]
BY NothingType DEF TypeOK, Goes

\* Where an actor can go.
LEMMA Targets ==
  \A o \in Actor : Fetched(o) \in Labels /\ Failed(o) \in Labels /\ Stored(o) \in Labels
BY DEF Fetched, Failed, Stored, Labels, Ended

LEMMA ToStoreType == TypeOK => \A o \in Actor : ToStore(o) \in Balances
BY ProvidedType DEF TypeOK, ToStore

LEMMA TypeStep == TypeOK /\ [Next]_vars => TypeOK'
<1> SUFFICES ASSUME TypeOK, [Next]_vars PROVE TypeOK'
  OBVIOUS
<1>1. CASE UNCHANGED vars
  BY <1>1 DEF TypeOK, vars
<1>2. CASE Change
  <2>1. mars' \in [Attr -> 1..Last + 1] /\ sent' \in 0..Last /\ sent + 1 \in Message
    BY <1>2, Kinds DEF Change, Changed, TypeOK, Message
  <2> QED
    BY <1>2, <2>1, Kinds DEF Change, TypeOK, Labels
<1>3. CASE Expire
  <2>1. vanished' \in BOOLEAN /\ cache' = Nothing
    BY <1>3 DEF Expire, Vanishes, TypeOK
  <2> QED
    BY <1>3, <2>1, NothingType DEF Expire, TypeOK
<1>4. CASE Crash
  BY <1>4, NothingType, Targets DEF Crash, TypeOK, Labels
<1>5. ASSUME NEW o \in Actor, Operation(o) PROVE TypeOK'
  <2>1. ASSUME NEW to \in Labels, Goes(o, to), UNCHANGED shared PROVE TypeOK'
    BY <2>1, GoesType DEF shared, TypeOK
  <2> USE Targets
  <2>2. CASE Start(o)
    <3>1. PICK to \in Labels : Goes(o, to)
      BY <2>2 DEF Start, Labels, Ended
    <3> QED
      BY <2>1, <2>2, <3>1 DEF Start, shared
  <2>3. CASE Read(o)
    <3>1. PICK to \in Labels : Goes(o, to)
      BY <2>3 DEF Read, Labels
    <3> QED
      BY <2>1, <2>3, <3>1 DEF Read, shared
  <2>4. CASE Pull(o)
    <3>1. mars \in Balances
      BY Kinds DEF TypeOK, Balances
    <3>2. CASE /\ pc' = [pc EXCEPT ![o] = "get"]
               /\ new' = [new EXCEPT ![o] = mars] /\ UNCHANGED old
      BY <2>4, <3>1, <3>2 DEF Pull, TypeOK, Labels
    <3> QED
      BY <2>1, <2>4, <3>2 DEF Pull, shared
  <2>5. CASE GetCached(o)
    <3>1. CASE /\ pc' = [pc EXCEPT ![o] = IF pc[o] = "get" THEN "set" ELSE "write"]
               /\ old' = [old EXCEPT ![o] = cache] /\ UNCHANGED new
      BY <2>5, <3>1 DEF GetCached, TypeOK, Labels
    <3> QED
      BY <2>1, <2>5, <3>1 DEF GetCached, shared
  <2>6. CASE SetCached(o)
    <3> DEFINE w == Merged(ToStore(o), old[o])
    <3>1. w \in Balances
      BY ToStoreType, MergedType DEF TypeOK
    <3>2. CASE UNCHANGED <<cache, floor, overtaken>>
      <4>1. PICK to \in Labels : Goes(o, to)
        BY <2>6 DEF SetCached
      <4> QED
        BY <2>1, <2>6, <3>2, <4>1 DEF SetCached, shared
    <3>3. CASE /\ cache' = w
               /\ floor' = [a \in Attr |-> IF w[a] > floor[a] THEN w[a] ELSE floor[a]]
               /\ overtaken' \in BOOLEAN
      <4>1. floor' \in Balances
        BY <3>1, <3>3, Kinds DEF TypeOK, Balances
      <4>2. PICK to \in Labels : Goes(o, to)
        BY <2>6 DEF SetCached
      <4> QED
        BY <2>6, <3>1, <3>3, <4>1, <4>2, GoesType DEF SetCached, TypeOK
    <3>4. overtaken' \in BOOLEAN
      BY <2>6 DEF SetCached, TypeOK
    <3> QED
      BY <2>6, <3>2, <3>3, <3>4 DEF SetCached
  <2>7. CASE CardRecharge(o)
    <3>1. mars' \in [Attr -> 1..Last + 1] /\ sent' \in 0..Last /\ sent + 1 \in Message
      BY <2>7, Kinds DEF CardRecharge, Changed, TypeOK, Message
    <3>2. mars' \in Balances
      BY <3>1, Kinds DEF Balances
    <3> QED
      BY <2>7, <3>1, <3>2, Kinds DEF CardRecharge, TypeOK, Labels
  <2>8. CASE UpdateBalances(o)
    <3>1. CASE pc' = [pc EXCEPT ![o] = "merge"] /\ UNCHANGED <<new, old>>
      BY <2>8, <3>1 DEF UpdateBalances, TypeOK, Labels
    <3>2. CASE Goes(o, "done")
      BY <2>1, <2>8, <3>2 DEF UpdateBalances, Labels, Ended, shared
    <3> QED
      BY <2>8, <3>1, <3>2 DEF UpdateBalances
  <2>9. CASE Invalidate(o)
    <3>1. vanished' \in BOOLEAN /\ cache' \in Balances
      BY <2>9, NothingType DEF Invalidate, Vanishes, TypeOK
    <3>2. PICK to \in Labels : Goes(o, to)
      BY <2>9 DEF Invalidate, Labels, Ended
    <3> QED
      BY <2>9, <3>1, <3>2, GoesType DEF Invalidate, TypeOK
  <2>10. CASE Fire(o)
    BY <2>1, <2>10 DEF Fire, Labels, shared
  <2> QED
    BY <1>5, <2>2, <2>3, <2>4, <2>5, <2>6, <2>7, <2>8, <2>9, <2>10 DEF Operation, Fetch
<1> QED
  BY <1>1, <1>2, <1>3, <1>4, <1>5 DEF Next

-----------------------------------------------------------------------------
(* The awaits *)

LEMMA ShapeStep == TypeOK /\ Shape /\ [Next]_vars => Shape'
<1> SUFFICES ASSUME TypeOK, Shape, [Next]_vars PROVE Shape'
  OBVIOUS
<1> USE Kinds
<1>1. CASE UNCHANGED vars
  BY <1>1 DEF Shape, vars
<1>2. CASE Change
  <2>1. sent + 1 \in Message
    BY <1>2 DEF Change, TypeOK, Message
  <2> QED
    BY <1>2, <2>1 DEF Change, Shape, TypeOK
<1>3. CASE Expire
  BY <1>3 DEF Expire, Shape
<1>4. CASE Crash
  BY <1>4 DEF Crash, Shape, TypeOK, Failed, Ended
<1>5. ASSUME NEW o \in Actor, Operation(o) PROVE Shape'
  <2>1. ASSUME NEW to \in {"read", "pull", "idle", "failed", "done"}, Goes(o, to) PROVE Shape'
    BY <2>1 DEF Goes, Shape, TypeOK
  <2>2. ASSUME Goes(o, "merge"), o \in Message PROVE Shape'
    BY <2>2 DEF Goes, Shape, TypeOK
  <2>3. CASE Start(o) \/ Fire(o)
    BY <2>1, <2>3 DEF Start, Fire
  <2>4. CASE Read(o)
    BY <2>1, <2>2, <2>4 DEF Read, Fetched, Failed
  <2>5. CASE Pull(o)
    <3>1. CASE pc' = [pc EXCEPT ![o] = "get"] /\ new' = [new EXCEPT ![o] = mars]
      BY <3>1 DEF Shape, TypeOK, Attr
    <3> QED
      BY <2>1, <2>5, <3>1 DEF Pull, Failed
  <2>6. CASE GetCached(o)
    <3>1. CASE /\ pc[o] \in {"get", "merge"}
               /\ pc' = [pc EXCEPT ![o] = IF pc[o] = "get" THEN "set" ELSE "write"]
               /\ UNCHANGED new
      BY <3>1 DEF Shape, TypeOK
    <3> QED
      BY <2>1, <2>6, <3>1 DEF GetCached, Failed
  <2>7. CASE SetCached(o)
    <3>1. CASE Goes(o, Failed(o)) \/ Goes(o, Fetched(o))
      BY <2>1, <2>2, <3>1 DEF Failed, Fetched
    <3>2. CASE pc[o] = "write" /\ Goes(o, Stored(o)) /\ o \in Message
      BY <2>1, <3>2 DEF Stored
    <3>3. CASE pc[o] = "write" /\ Goes(o, Stored(o)) /\ o \notin Message
      <4>1. o \in Buyer
        BY <3>3 DEF Shape, Actor
      <4> QED
        BY <3>3, <4>1 DEF Stored, Goes, Shape, TypeOK
    <3> QED
      BY <2>7, <3>1, <3>2, <3>3 DEF SetCached, Stored
  <2>8. CASE CardRecharge(o)
    <3>1. sent + 1 \in Message /\ o \in Buyer
      BY <2>8 DEF CardRecharge, TypeOK, Message
    <3>2. mars'["chips"] # 0 /\ mars'["tickets"] # 0
      BY <2>8 DEF CardRecharge, Changed, TypeOK, Attr
    <3> QED
      BY <2>8, <3>1, <3>2 DEF CardRecharge, Shape, TypeOK
  <2>9. CASE UpdateBalances(o)
    <3>1. CASE pc[o] = "look" /\ pc' = [pc EXCEPT ![o] = "merge"] /\ UNCHANGED new
      BY <3>1 DEF Shape, TypeOK
    <3> QED
      BY <2>1, <2>9, <3>1 DEF UpdateBalances
  <2>10. CASE Invalidate(o)
    <3>1. CASE pc[o] = "drop" /\ Goes(o, "timer")
      BY <3>1 DEF Goes, Shape, TypeOK
    <3> QED
      BY <2>1, <2>10, <3>1 DEF Invalidate
  <2> QED
    BY <1>5, <2>3, <2>4, <2>5, <2>6, <2>7, <2>8, <2>9, <2>10 DEF Operation, Fetch
<1> QED
  BY <1>1, <1>2, <1>3, <1>4, <1>5 DEF Next

-----------------------------------------------------------------------------
(* MARS is the newest *)

\* What the next change leaves at MARS.
LEMMA ChangeNewer ==
  ASSUME TypeOK, MarsIsNewest, sent < Last, sent' = sent + 1, mars' = Changed(sent + 1)
  PROVE  /\ sent + 1 \in Message
         /\ \A a \in Attr : mars[a] <= mars'[a] /\ mars'[a] <= sent' + 1
         /\ \A m \in Message, a \in Attr : m <= sent' => Provided(m)[a] <= mars'[a]
<1>1. sent + 1 \in Message /\ sent \in Nat
  BY Kinds DEF TypeOK, Message
<1>2. \A a \in Attr : mars[a] <= mars'[a] /\ mars'[a] <= sent' + 1
  BY <1>1, Kinds DEF Changed, MarsIsNewest, TypeOK
<1>3. ASSUME NEW m \in Message, NEW a \in Attr, m <= sent' PROVE Provided(m)[a] <= mars'[a]
  <2>1. CASE m <= sent
    BY <2>1, <1>2, Kinds, ProvidedType DEF MarsIsNewest, TypeOK, Balances, Changed, Message
  <2>2. CASE m = sent + 1
    BY <2>2, <1>1 DEF Changed, Provided, TypeOK
  <2> QED
    BY <1>1, <1>3, <2>1, <2>2, Kinds DEF Message
<1> QED
  BY <1>1, <1>2, <1>3

LEMMA CarriedOld ==
  ASSUME TypeOK, MarsIsNewest, NEW o \in Actor, NEW a \in Attr
  PROVE  /\ pc[o] \in {"set", "write"} => Merged(ToStore(o), old[o])[a] <= mars[a]
         /\ \A d \in Carried(o) : d \in Balances /\ d[a] <= mars[a]
<1>1. ToStore(o) \in Balances /\ old[o] \in Balances /\ new[o] \in Balances
  BY ToStoreType DEF TypeOK
<1>2. \A m \in Message : pc[m] # "unsent" => Provided(m)[a] <= mars[a]
  BY DEF MarsIsNewest
<1>3. ToStore(o)[a] <= mars[a] /\ old[o][a] <= mars[a] /\ new[o][a] <= mars[a]
  BY <1>2 DEF ToStore, MarsIsNewest
<1>4. Merged(ToStore(o), old[o]) \in Balances /\ Merged(ToStore(o), old[o])[a] <= mars[a]
  <2>1. /\ Merged(ToStore(o), old[o]) \in Balances
        /\ Merged(ToStore(o), old[o])[a] \in {0, ToStore(o)[a], old[o][a]}
    BY <1>1, MergedType
  <2>2. 0 <= mars[a]
    BY DEF TypeOK
  <2> QED
    BY <1>3, <2>1, <2>2
<1>5. \A d \in Carried(o) : d \in Balances /\ d[a] <= mars[a]
  BY <1>1, <1>2, <1>3, <1>4, ProvidedType DEF Carried
<1> QED
  BY <1>4, <1>5

LEMMA MarsStep == TypeOK /\ MarsIsNewest /\ [Next]_vars => MarsIsNewest'
<1> SUFFICES ASSUME TypeOK, MarsIsNewest, [Next]_vars PROVE MarsIsNewest'
  OBVIOUS
<1> USE Kinds
<1>1. CASE UNCHANGED vars
  BY <1>1 DEF MarsIsNewest, vars, Provided
<1>9. ASSUME NEW o \in Actor, NEW to \in Labels, Goes(o, to), pc[o] # "unsent",
             UNCHANGED <<mars, sent>>,
             \A a \in Attr : floor'[a] <= mars[a] /\ cache'[a] <= mars[a]
      PROVE  MarsIsNewest'
  <2>1. \A p \in Actor, a \in Attr : new'[p][a] <= mars[a] /\ old'[p][a] <= mars[a]
    BY <1>9, NothingType DEF Goes, MarsIsNewest, TypeOK
  <2>2. \A m \in Message : pc'[m] # "unsent" => pc[m] # "unsent"
    BY <1>9 DEF Goes, TypeOK
  <2> QED
    BY <1>9, <2>1, <2>2 DEF MarsIsNewest, Provided
<1>2. CASE Change
  <2>1. \A m \in Message : pc'[m] # "unsent" => m <= sent'
    BY <1>2 DEF Change, MarsIsNewest, TypeOK, Message
  <2>2. \A a \in Attr : mars[a] \in Nat /\ mars'[a] \in Nat /\ floor[a] \in Nat /\ cache[a] \in Nat
    BY <1>2, TypeStep DEF TypeOK, Balances
  <2>3. \A o \in Actor, a \in Attr : new[o][a] \in Nat /\ old[o][a] \in Nat
    BY DEF TypeOK, Balances
  <2>4. /\ \A a \in Attr : mars[a] <= mars'[a] /\ mars'[a] <= sent' + 1
        /\ \A m \in Message, a \in Attr : m <= sent' => Provided(m)[a] <= mars'[a]
    BY <1>2, ChangeNewer DEF Change
  <2> QED
    BY <1>2, <2>1, <2>2, <2>3, <2>4 DEF MarsIsNewest, Change, Provided
<1>3. CASE Expire
  BY <1>3, NothingType DEF Expire, Vanishes, MarsIsNewest, TypeOK, Provided
<1>4. CASE Crash
  BY <1>4, NothingType DEF Crash, MarsIsNewest, TypeOK, Provided, Failed
<1>5. ASSUME NEW o \in Actor, Operation(o) PROVE MarsIsNewest'
  <2> USE Targets
  <2>0. \A a \in Attr : floor[a] <= mars[a] /\ cache[a] <= mars[a] /\ 0 <= mars[a]
    BY DEF MarsIsNewest, TypeOK
  <2>1. CASE Start(o) \/ Read(o) \/ Fire(o)
    <3>1. PICK to \in Labels : Goes(o, to)
      BY <2>1 DEF Start, Read, Fire, Labels, Ended
    <3> QED
      BY <2>0, <2>1, <3>1, <1>9 DEF Start, Read, Fire
  <2>2. CASE Pull(o)
    <3>1. CASE /\ pc' = [pc EXCEPT ![o] = "get"]
               /\ new' = [new EXCEPT ![o] = mars] /\ UNCHANGED old
      <4>1. \A p \in Actor, a \in Attr : new'[p][a] <= mars[a]
        BY <3>1 DEF MarsIsNewest, TypeOK
      <4> QED
        BY <2>2, <3>1, <4>1 DEF Pull, MarsIsNewest, TypeOK, Provided
    <3> QED
      BY <2>0, <2>2, <3>1, <1>9 DEF Pull
  <2>3. CASE GetCached(o)
    <3>1. CASE /\ pc[o] \in {"get", "merge"}
               /\ pc' = [pc EXCEPT ![o] = IF pc[o] = "get" THEN "set" ELSE "write"]
               /\ old' = [old EXCEPT ![o] = cache] /\ UNCHANGED new
      <4>1. \A p \in Actor, a \in Attr : old'[p][a] <= mars[a]
        BY <3>1 DEF MarsIsNewest, TypeOK
      <4> QED
        BY <2>3, <3>1, <4>1 DEF GetCached, MarsIsNewest, TypeOK, Provided
    <3> QED
      BY <2>0, <2>3, <3>1, <1>9 DEF GetCached
  <2>4. CASE SetCached(o)
    <3> DEFINE w == Merged(ToStore(o), old[o])
    <3>1. PICK to \in Labels : Goes(o, to)
      BY <2>4 DEF SetCached
    <3>2. \A a \in Attr : w[a] <= mars[a]
      BY <2>4, CarriedOld DEF SetCached
    <3>3. \A a \in Attr : floor'[a] <= mars[a] /\ cache'[a] <= mars[a]
      <4>1. CASE UNCHANGED <<cache, floor, overtaken>>
        BY <4>1, <2>0
      <4>2. CASE /\ cache' = w
                 /\ floor' = [a \in Attr |-> IF w[a] > floor[a] THEN w[a] ELSE floor[a]]
        BY <2>0, <3>2, <4>2
      <4> QED
        BY <2>4, <4>1, <4>2 DEF SetCached
    <3> QED
      BY <2>4, <3>1, <3>3, <1>9 DEF SetCached
  <2>5. CASE CardRecharge(o)
    <3>1. \A m \in Message : pc'[m] # "unsent" => m <= sent'
      BY <2>5 DEF CardRecharge, MarsIsNewest, TypeOK, Message
    <3>2. \A a \in Attr : mars[a] \in Nat /\ mars'[a] \in Nat /\ floor[a] \in Nat /\ cache[a] \in Nat
      BY <1>5, TypeStep DEF TypeOK, Balances, Next
    <3>3. \A p \in Actor, a \in Attr : new[p][a] \in Nat /\ old[p][a] \in Nat
      BY DEF TypeOK, Balances
    <3>4. /\ \A a \in Attr : mars[a] <= mars'[a] /\ mars'[a] <= sent' + 1
          /\ \A m \in Message, a \in Attr : m <= sent' => Provided(m)[a] <= mars'[a]
      BY <2>5, ChangeNewer DEF CardRecharge
    <3>5. \A p \in Actor, a \in Attr : new'[p][a] <= mars'[a] /\ old'[p][a] <= mars'[a]
      BY <2>5, <3>2, <3>3, <3>4 DEF CardRecharge, MarsIsNewest, TypeOK
    <3>6. \A a \in Attr : floor'[a] <= mars'[a] /\ cache'[a] <= mars'[a]
      BY <2>0, <2>5, <3>2, <3>4 DEF CardRecharge
    <3> QED
      BY <3>1, <3>4, <3>5, <3>6 DEF MarsIsNewest, Provided
  <2>6. CASE UpdateBalances(o)
    <3>1. CASE pc[o] = "look" /\ pc' = [pc EXCEPT ![o] = "merge"] /\ UNCHANGED <<new, old>>
      BY <2>6, <3>1 DEF UpdateBalances, MarsIsNewest, TypeOK, Provided
    <3>2. CASE pc[o] = "look" /\ Goes(o, "done")
      <4>1. "done" \in Labels
        BY DEF Labels, Ended
      <4> QED
        BY <2>0, <2>6, <3>2, <4>1, <1>9 DEF UpdateBalances
    <3> QED
      BY <2>6, <3>1, <3>2 DEF UpdateBalances
  <2>7. CASE Invalidate(o)
    <3>1. PICK to \in Labels : Goes(o, to)
      BY <2>7 DEF Invalidate, Labels, Ended
    <3>2. \A a \in Attr : cache'[a] <= mars[a]
      BY <2>0, <2>7, NothingType DEF Invalidate, Vanishes
    <3> QED
      BY <2>0, <2>7, <3>1, <3>2, <1>9 DEF Invalidate
  <2> QED
    BY <1>5, <2>1, <2>2, <2>3, <2>4, <2>5, <2>6, <2>7 DEF Operation, Fetch
<1> QED
  BY <1>1, <1>2, <1>3, <1>4, <1>5 DEF Next

-----------------------------------------------------------------------------
(* What is carried, and what is stored *)

\* d is no older than what was stored.
Fresh(d) == \A a \in Kept : d[a] = 0 \/ d[a] >= floor[a]

LEMMA MergedFresh ==
  ASSUME NEW b \in Balances, NEW c \in Balances, Fresh(b), Fresh(c)
  PROVE  Fresh(Merged(b, c))
BY MergedType DEF Fresh

\* An actor that does not move carries what it carried.
LEMMA CarriedStays ==
  ASSUME NEW p, pc'[p] = pc[p], new'[p] = new[p], old'[p] = old[p]
  PROVE  Carried(p)' = Carried(p)
BY DEF Carried, ToStore, Merged, Provided

\* The awaits where a message is still to be merged.
Waiting == {"queued", "read", "pull", "get", "set", "merge"}

LEMMA GoesCarries ==
  ASSUME TypeOK, NEW o \in Actor,
         NEW to \in {"read", "pull", "merge", "drop", "timer", "idle", "failed", "done"},
         Goes(o, to),
         o \in Message /\ to \in {"read", "pull", "merge"} => pc[o] \in Waiting,
         o \in Buyer => to # "merge"
  PROVE  \A p \in Actor : Carried(p)' \subseteq Carried(p)
<1>1. ASSUME NEW p \in Actor, p # o PROVE Carried(p)' \subseteq Carried(p)
  BY <1>1, CarriedStays DEF Goes, TypeOK
<1>2. pc'[o] = to
  BY DEF Goes, TypeOK
<1>3. Carried(o)' \subseteq (IF o \in Message /\ to \in {"read", "pull", "merge"} THEN {Provided(o)} ELSE {})
  BY <1>2 DEF Carried, Provided
<1>4. o \in Message /\ pc[o] \in Waiting => Provided(o) \in Carried(o)
  BY DEF Carried, Waiting
<1> QED
  BY <1>1, <1>3, <1>4

\* What is carried after a step that stores nothing.
LEMMA CarryFrame ==
  ASSUME NoneCarriesOlder, UNCHANGED <<floor, overtaken>>,
         \A p \in Actor : \A d \in Carried(p)' : d \in Carried(p) \/ Fresh(d)
  PROVE  NoneCarriesOlder'
BY DEF NoneCarriesOlder, Fresh

LEMMA CarryStep ==
  ASSUME TypeOK, MarsIsNewest, Shape, NoneCarriesOlder, NotOlderUnlessOvertaken, [Next]_vars
  PROVE  NoneCarriesOlder' /\ NotOlderUnlessOvertaken'
<1> USE Kinds
<1> DEFINE Kept1 == NoneCarriesOlder' /\ NotOlderUnlessOvertaken'
<1>1. CASE UNCHANGED vars
  BY <1>1, CarriedStays DEF vars, NoneCarriesOlder, NotOlderUnlessOvertaken
<1>a. /\ \A a \in Attr : floor[a] \in Nat /\ mars[a] \in Nat /\ floor[a] <= mars[a] /\ mars[a] <= sent + 1
      /\ sent \in Nat
  BY DEF TypeOK, Balances, MarsIsNewest
<1>b. ASSUME cache' \in {cache, Nothing}, UNCHANGED <<floor, overtaken>>
      PROVE  NotOlderUnlessOvertaken'
  BY <1>b, NothingType DEF NotOlderUnlessOvertaken, Kept, Attr
<1>c. ASSUME NEW o \in Actor, NEW m \in Message, m = sent + 1, pc'[m] = "queued",
             \A p \in Actor \ {o, m} : pc'[p] = pc[p] /\ new'[p] = new[p] /\ old'[p] = old[p],
             Carried(o)' \subseteq {Changed(m), Provided(m)},
             UNCHANGED <<cache, floor, overtaken>>
      PROVE  Kept1
  <2>1. Fresh(Provided(m)) /\ Fresh(Changed(m))
    BY <1>a, <1>c DEF Fresh, Provided, Changed, Kept, Attr
  <2>2. Carried(m)' \subseteq {Provided(m)}
    BY <1>c DEF Carried, Provided
  <2>3. \A p \in Actor \ {o, m} : Carried(p)' = Carried(p)
    BY <1>c, CarriedStays
  <2>4. NoneCarriesOlder'
    BY <1>c, <2>1, <2>2, <2>3, CarryFrame
  <2> QED
    BY <1>b, <1>c, <2>4
<1>2. CASE Change
  <2>1. PICK m \in Message : m = sent + 1
    BY <1>2 DEF Change, TypeOK, Message
  <2>2. /\ pc'[m] = "queued"
        /\ \A p \in Actor \ {m} : pc'[p] = pc[p] /\ new'[p] = new[p] /\ old'[p] = old[p]
    BY <1>2, <2>1 DEF Change, TypeOK
  <2>3. Carried(m)' \subseteq {Changed(m), Provided(m)}
    BY <2>2 DEF Carried, Provided
  <2> QED
    BY <1>c, <1>2, <2>1, <2>2, <2>3 DEF Change
<1>3. CASE Expire
  <2>1. \A p \in Actor : Carried(p)' = Carried(p)
    BY <1>3, CarriedStays DEF Expire
  <2> QED
    BY <1>b, <1>3, <2>1, CarryFrame DEF Expire, Vanishes
<1>4. CASE Crash
  <2>1. ASSUME NEW p \in Actor PROVE Carried(p)' \subseteq Carried(p)
    <3>1. pc'[p] \in {"idle", "failed", "done", "unsent"} \/ (pc'[p] = "queued" /\ pc[p] = "queued")
      BY <1>4 DEF Crash, Ended, Failed
    <3> QED
      BY <3>1 DEF Carried, Provided
  <2> QED
    BY <1>b, <1>4, <2>1, CarryFrame DEF Crash
<1>5. ASSUME NEW o \in Actor, Operation(o) PROVE Kept1
  <2> DEFINE Afar == {"read", "pull", "merge", "drop", "timer", "idle", "failed", "done"}
  <2>1. ASSUME NEW to \in Afar, Goes(o, to),
               o \in Message /\ to \in {"read", "pull", "merge"} => pc[o] \in Waiting,
               o \in Buyer => to # "merge",
               cache' \in {cache, Nothing}, UNCHANGED <<floor, overtaken>>
        PROVE  Kept1
    <3>1. \A p \in Actor : Carried(p)' \subseteq Carried(p)
      BY <2>1, GoesCarries
    <3> QED
      BY <1>b, <2>1, <3>1, CarryFrame
  <2>2. CASE Start(o)
    BY <2>1, <2>2 DEF Start, Waiting
  <2>3. CASE Read(o)
    BY <2>1, <2>3 DEF Read, Fetched, Failed, Waiting
  <2>4. CASE Pull(o)
    <3>1. CASE pc' = [pc EXCEPT ![o] = "get"] /\ new' = [new EXCEPT ![o] = mars] /\ UNCHANGED old
      <4>1. Fresh(mars)
        BY <1>a DEF Fresh, Kept, Attr
      <4>2. Carried(o)' \subseteq Carried(o) \cup {mars}
        BY <2>4, <3>1 DEF Pull, Carried, Provided, TypeOK
      <4>3. \A p \in Actor \ {o} : Carried(p)' = Carried(p)
        BY <3>1, CarriedStays DEF TypeOK
      <4> QED
        BY <1>b, <2>4, <4>1, <4>2, <4>3, CarryFrame DEF Pull
    <3>2. CASE pc[o] = "pull" /\ Goes(o, Failed(o))
      BY <2>1, <2>4, <3>2 DEF Pull, Failed
    <3> QED
      BY <2>4, <3>1, <3>2 DEF Pull
  <2>5. CASE GetCached(o)
    <3>1. CASE /\ pc[o] \in {"get", "merge"}
               /\ pc' = [pc EXCEPT ![o] = IF pc[o] = "get" THEN "set" ELSE "write"]
               /\ old' = [old EXCEPT ![o] = cache] /\ UNCHANGED new
      <4> DEFINE w == Merged(ToStore(o)', cache)
      <4>1. Carried(o)' \subseteq Carried(o) \cup {w}
        BY <3>1 DEF Carried, Provided, Merged, TypeOK
      <4>2. ToStore(o)' = ToStore(o) /\ ToStore(o) \in Carried(o) /\ ToStore(o) \in Balances
        BY <3>1, ToStoreType DEF ToStore, Carried, Provided, TypeOK, Shape, Actor
      <4>3. overtaken \/ Fresh(w)
        BY <4>2, MergedFresh DEF NoneCarriesOlder, NotOlderUnlessOvertaken, Fresh, TypeOK
      <4>4. \A p \in Actor \ {o} : Carried(p)' = Carried(p)
        BY <3>1, CarriedStays DEF TypeOK
      <4>5. NoneCarriesOlder'
        BY <2>5, <4>1, <4>3, <4>4, CarryFrame DEF GetCached, NoneCarriesOlder
      <4> QED
        BY <1>b, <2>5, <4>5 DEF GetCached
    <3>2. CASE Goes(o, Failed(o))
      BY <2>1, <2>5, <3>2 DEF GetCached, Failed
    <3> QED
      BY <2>5, <3>1, <3>2 DEF GetCached
  <2>6. CASE SetCached(o)
    <3> DEFINE w == Merged(ToStore(o), old[o])
    <3>1. PICK to \in {Failed(o), Stored(o)} : Goes(o, to)
      BY <2>6 DEF SetCached
    <3>2. /\ to \in Afar
          /\ o \in Message /\ to \in {"read", "pull", "merge"} => pc[o] \in Waiting
          /\ o \in Buyer => to # "merge"
      BY <2>6, <3>1 DEF SetCached, Stored, Failed, Fetched, Waiting
    <3>3. CASE UNCHANGED <<cache, floor, overtaken>>
      BY <2>1, <3>1, <3>2, <3>3
    <3>4. CASE /\ cache' = w
               /\ floor' = [a \in Attr |-> IF w[a] > floor[a] THEN w[a] ELSE floor[a]]
               /\ overtaken' = (overtaken \/ \E p \in Actor : \E d \in Carried(p), a \in Kept :
                                               d[a] # 0 /\ d[a] < w[a])
      <4>1. w \in Carried(o)
        BY <2>6 DEF SetCached, Carried
      <4>2. \A p \in Actor : Carried(p)' \subseteq Carried(p)
        BY <3>1, <3>2, GoesCarries
      <4>3. \A p \in Actor : \A d \in Carried(p), a \in Kept : d[a] \in Nat /\ floor[a] \in Nat
        BY <1>a, CarriedOld DEF Balances, Kept, Attr
      <4>4. ~overtaken' => \A p \in Actor : \A d \in Carried(p), a \in Kept :
                               d[a] = 0 \/ (d[a] >= floor[a] /\ d[a] >= w[a])
        <5>1. ~overtaken' => /\ ~overtaken
                             /\ \A p \in Actor : \A d \in Carried(p), a \in Kept :
                                  ~(d[a] # 0 /\ d[a] < w[a])
          BY <3>4, Zenon
        <5>2. \A a \in Kept : w[a] \in Nat
          BY <4>1, <4>3
        <5> HIDE DEF w
        <5>3. ASSUME ~overtaken', NEW p \in Actor, NEW d \in Carried(p), NEW a \in Kept
              PROVE  d[a] = 0 \/ (d[a] >= floor[a] /\ d[a] >= w[a])
          <6>1. d[a] # 0 => ~(d[a] < w[a])
            BY <5>1, <5>3
          <6>2. d[a] = 0 \/ d[a] >= floor[a]
            BY <5>1, <5>3 DEF NoneCarriesOlder
          <6> QED
            BY <4>3, <5>2, <6>1, <6>2
        <5> QED
          BY <5>3
      <4>5. \A a \in Kept : floor'[a] \in {floor[a], w[a]} /\ cache'[a] = w[a]
        BY <3>4 DEF Kept, Attr
      <4>6. NoneCarriesOlder'
        <5>1. ASSUME ~overtaken', NEW p \in Actor, NEW d \in Carried(p)', NEW a \in Kept
              PROVE  d[a] = 0 \/ d[a] >= floor'[a]
          BY <4>2, <4>4, <4>5, <5>1
        <5> QED
          BY <5>1 DEF NoneCarriesOlder
      <4>7. NotOlderUnlessOvertaken'
        BY <4>1, <4>3, <4>4, <4>5 DEF NotOlderUnlessOvertaken
      <4> QED
        BY <4>6, <4>7
    <3> QED
      BY <2>6, <3>3, <3>4 DEF SetCached
  <2>7. CASE CardRecharge(o)
    <3>1. PICK m \in Message : m = sent + 1
      BY <2>7 DEF CardRecharge, TypeOK, Message
    <3>2. o \in Buyer /\ o # m
      BY <2>7 DEF CardRecharge
    <3>3. \A p \in Actor \ {o, m} : pc'[p] = pc[p] /\ new'[p] = new[p] /\ old'[p] = old[p]
      BY <2>7, <3>1, <3>2 DEF CardRecharge, TypeOK
    <3>4. pc'[m] = "queued" /\ pc'[o] = "look" /\ new'[o] = Changed(m)
      BY <2>7, <3>1, <3>2 DEF CardRecharge, TypeOK
    <3>5. Carried(o)' \subseteq {Changed(m), Provided(m)}
      BY <3>2, <3>4 DEF Carried
    <3> QED
      BY <1>c, <2>7, <3>1, <3>3, <3>4, <3>5 DEF CardRecharge
  <2>8. CASE UpdateBalances(o)
    <3>1. CASE pc[o] = "look" /\ pc' = [pc EXCEPT ![o] = "merge"] /\ UNCHANGED <<new, old>>
      <4>1. Carried(o)' \subseteq Carried(o)
        BY <3>1 DEF Carried, Shape, TypeOK
      <4>2. \A p \in Actor \ {o} : Carried(p)' = Carried(p)
        BY <3>1, CarriedStays DEF TypeOK
      <4> QED
        BY <1>b, <2>8, <4>1, <4>2, CarryFrame DEF UpdateBalances
    <3>2. CASE Goes(o, "done")
      BY <2>1, <2>8, <3>2 DEF UpdateBalances
    <3> QED
      BY <2>8, <3>1, <3>2 DEF UpdateBalances
  <2>9. CASE Invalidate(o)
    BY <2>1, <2>9 DEF Invalidate, Vanishes
  <2>10. CASE Fire(o)
    BY <2>1, <2>10 DEF Fire, Shape
  <2> QED
    BY <1>5, <2>2, <2>3, <2>4, <2>5, <2>6, <2>7, <2>8, <2>9, <2>10 DEF Operation, Fetch
<1> QED
  BY <1>1, <1>2, <1>3, <1>4, <1>5 DEF Next

-----------------------------------------------------------------------------
(* Whole records *)

\* What is merged in when it is whole, or its cached value is.
LEMMA MergedWhole ==
  ASSUME NEW b \in Balances, NEW c \in Balances, b["tickets"] # 0,
         b["chips"] # 0 \/ c["chips"] # 0
  PROVE  /\ Merged(b, c)["tickets"] # 0 /\ Merged(b, c)["chips"] # 0
         /\ Merged(b, c)["points"] = 0
BY DEF Merged, Attr, Kept

\* What is written while no key has gone away.
LEMMA WrittenWhole ==
  ASSUME TypeOK, Shape, MergesWithWhole, NEW o \in Actor, pc[o] \in {"set", "write"}
  PROVE  LET w == Merged(ToStore(o), old[o])
         IN  w["points"] = 0 /\ (~vanished => w["tickets"] # 0 /\ w["chips"] # 0)
<1>1. ToStore(o) \in Balances /\ old[o] \in Balances
  BY ToStoreType DEF TypeOK
<1>2. Merged(ToStore(o), old[o])["points"] = 0
  BY DEF Merged, Attr, Kept
<1>3. CASE o \in Message /\ pc[o] = "write"
  <2>1. ToStore(o)["tickets"] # 0
    BY <1>3, Kinds DEF ToStore, Provided, Attr, Message
  <2>2. vanished \/ ToStore(o)["chips"] # 0 \/ old[o]["chips"] # 0
    BY <1>3, Kinds DEF ToStore, Provided, Attr, Message, MergesWithWhole
  <2> QED
    BY <1>1, <1>2, <2>1, <2>2, MergedWhole
<1>4. CASE ~(o \in Message /\ pc[o] = "write")
  <2>1. ToStore(o) = new[o] /\ new[o]["tickets"] # 0 /\ new[o]["chips"] # 0
    BY <1>4 DEF ToStore, Shape, Actor
  <2> QED
    BY <1>1, <1>2, <2>1, MergedWhole
<1> QED
  BY <1>3, <1>4

LEMMA WholeStep ==
  ASSUME TypeOK, Shape, MergesWithWhole, PointsUnknown, WholeUnlessVanished, [Next]_vars
  PROVE  MergesWithWhole' /\ PointsUnknown' /\ WholeUnlessVanished'
<1> USE Kinds
<1> DEFINE Whole1 == MergesWithWhole' /\ PointsUnknown' /\ WholeUnlessVanished'
<1>1. CASE UNCHANGED vars
  BY <1>1 DEF vars, MergesWithWhole, PointsUnknown, WholeUnlessVanished
<1>a. ASSUME Vanishes,
             \A m \in TicketChange : pc'[m] \in {"merge", "write"} => pc'[m] = pc[m] /\ old'[m] = old[m]
      PROVE  Whole1
  BY <1>a, NothingType DEF Vanishes, MergesWithWhole, PointsUnknown, WholeUnlessVanished, Attr
<1>b. ASSUME UNCHANGED <<cache, vanished>>,
             \A m \in TicketChange : pc'[m] \in {"merge", "write"} => pc'[m] = pc[m] /\ old'[m] = old[m]
      PROVE  Whole1
  BY <1>b DEF MergesWithWhole, PointsUnknown, WholeUnlessVanished
<1>2. CASE Change
  <2>1. \A m \in Message : pc'[m] # "queued" => pc'[m] = pc[m]
    BY <1>2 DEF Change, TypeOK, Message
  <2> QED
    BY <1>b, <1>2, <2>1 DEF Change
<1>3. CASE Expire
  BY <1>3, <1>a DEF Expire
<1>4. CASE Crash
  <2>1. \A m \in TicketChange : pc'[m] \notin {"merge", "write"}
    BY <1>4 DEF Crash, Failed, Ended, Actor
  <2> QED
    BY <1>b, <1>4, <2>1 DEF Crash
<1>5. ASSUME NEW o \in Actor, Operation(o) PROVE Whole1
  <2>1. ASSUME NEW to, Goes(o, to), to \notin {"merge", "write"}
        PROVE  \A m \in TicketChange : pc'[m] \in {"merge", "write"} => pc'[m] = pc[m] /\ old'[m] = old[m]
    BY <2>1 DEF Goes, TypeOK
  <2>3. CASE Start(o)
    BY <1>b, <2>1, <2>3 DEF Start
  <2>4. CASE Read(o)
    <3>1. CASE Goes(o, "merge") /\ cache # Nothing
      <4>1. ~vanished => cache["chips"] # 0
        BY <3>1 DEF WholeUnlessVanished, PointsUnknown, Nothing, TypeOK, Balances, Attr
      <4>2. MergesWithWhole'
        BY <2>4, <3>1, <4>1 DEF Read, Goes, TypeOK, MergesWithWhole
      <4> QED
        BY <2>4, <4>2 DEF Read, PointsUnknown, WholeUnlessVanished
    <3> QED
      BY <1>b, <2>1, <2>4, <3>1 DEF Read, Failed, Fetched
  <2>5. CASE Pull(o)
    <3>1. CASE pc' = [pc EXCEPT ![o] = "get"] /\ UNCHANGED old
      BY <1>b, <2>5, <3>1 DEF Pull, TypeOK
    <3> QED
      BY <1>b, <2>1, <2>5, <3>1 DEF Pull, Failed
  <2>6. CASE GetCached(o)
    <3>1. CASE /\ pc[o] \in {"get", "merge"}
               /\ pc' = [pc EXCEPT ![o] = IF pc[o] = "get" THEN "set" ELSE "write"]
               /\ old' = [old EXCEPT ![o] = cache]
      <4>1. MergesWithWhole'
        BY <2>6, <3>1 DEF GetCached, TypeOK, MergesWithWhole
      <4> QED
        BY <2>6, <4>1 DEF GetCached, PointsUnknown, WholeUnlessVanished
    <3> QED
      BY <1>b, <2>1, <2>6, <3>1 DEF GetCached, Failed
  <2>7. CASE SetCached(o)
    <3> DEFINE w == Merged(ToStore(o), old[o])
    <3>1. PICK to \in {Failed(o), Stored(o)} : Goes(o, to)
      BY <2>7 DEF SetCached
    <3>2. to # "write" /\ (to = "merge" => cache' = w)
      <4>1. pc'[o] = to
        BY <3>1 DEF Goes, TypeOK
      <4>2. Failed(o) \notin {"merge", "write"} /\ Stored(o) # "write"
        BY DEF Stored, Failed, Fetched
      <4>3. Goes(o, Failed(o)) => pc'[o] = Failed(o)
        BY DEF Goes, TypeOK
      <4> QED
        BY <2>7, <4>1, <4>2, <4>3 DEF SetCached
    <3>3. CASE UNCHANGED cache /\ to # "merge"
      BY <1>b, <2>1, <2>7, <3>1, <3>2, <3>3 DEF SetCached
    <3>4. CASE cache' = w
      <4>1. w["points"] = 0 /\ (~vanished => w["tickets"] # 0 /\ w["chips"] # 0)
        BY <2>7, WrittenWhole DEF SetCached
      <4> HIDE DEF w
      <4>2. UNCHANGED vanished
        BY <2>7 DEF SetCached
      <4>3. \A m \in TicketChange : pc'[m] = "write" => pc[m] = "write" /\ old'[m] = old[m]
        BY <3>1, <3>2 DEF Goes, TypeOK
      <4> QED
        BY <3>4, <4>1, <4>2, <4>3 DEF MergesWithWhole, PointsUnknown, WholeUnlessVanished
    <3> QED
      BY <2>7, <3>2, <3>3, <3>4 DEF SetCached
  <2>8. CASE CardRecharge(o)
    <3>1. \A m \in Message : pc'[m] # "queued" => pc'[m] = pc[m]
      BY <2>8 DEF CardRecharge, TypeOK, Message
    <3> QED
      BY <1>b, <2>8, <3>1 DEF CardRecharge
  <2>9. CASE UpdateBalances(o)
    <3>1. o \in Buyer
      BY <2>9 DEF UpdateBalances, Shape
    <3> QED
      BY <1>b, <2>9, <3>1 DEF UpdateBalances, Goes, TypeOK
  <2>10. CASE Invalidate(o)
    BY <1>a, <1>b, <2>1, <2>10 DEF Invalidate
  <2>11. CASE Fire(o)
    BY <1>b, <2>1, <2>11 DEF Fire
  <2> QED
    BY <1>5, <2>3, <2>4, <2>5, <2>6, <2>7, <2>8, <2>9, <2>10, <2>11 DEF Operation, Fetch
<1> QED
  BY <1>1, <1>2, <1>3, <1>4, <1>5 DEF Next

-----------------------------------------------------------------------------
(* The theorems *)

LEMMA InitIInv == Init => IInv
<1> SUFFICES ASSUME Init PROVE IInv
  OBVIOUS
<1>1. TypeOK
  <2>1. mars \in [Attr -> 1..Last + 1] /\ sent \in 0..Last
    BY Kinds DEF Init
  <2>2. pc \in [Actor -> Labels]
    BY DEF Init, Labels
  <2> QED
    BY <2>1, <2>2, NothingType DEF Init, TypeOK
<1>2. \A o \in Actor : Carried(o) = {} /\ pc[o] \in {"unsent", "idle"}
  BY DEF Init, Carried
<1>3. MarsIsNewest
  <2>1. mars = [a \in Attr |-> 1] /\ sent = 0 /\ cache = Nothing /\ floor = Nothing
    BY DEF Init
  <2>2. \A o \in Actor : new[o] = Nothing /\ old[o] = Nothing
    BY DEF Init
  <2>3. \A m \in Message : pc[m] = "unsent" /\ ~(m <= sent)
    BY <2>1, Kinds DEF Init, Message
  <2> QED
    BY <2>1, <2>2, <2>3, NothingType DEF MarsIsNewest
<1> QED
  BY <1>1, <1>2, <1>3, Kinds, NothingType
  DEF Init, IInv, NoneCarriesOlder, Shape, MergesWithWhole, PointsUnknown,
      NotOlderUnlessOvertaken, WholeUnlessVanished, Kept, Attr

LEMMA NextIInv == IInv /\ [Next]_vars => IInv'
BY TypeStep, MarsStep, ShapeStep, CarryStep, WholeStep DEF IInv

\* The inductive invariant of the cache.
THEOREM Invariance == Spec => []IInv
BY InitIInv, NextIInv, PTL DEF Spec

\* The types of the variables.
THEOREM TypeCorrect == Spec => []TypeOK
<1>1. IInv => TypeOK
  BY DEF IInv
<1> QED
  BY <1>1, Invariance, PTL

(***************************************************************************)
(* An attribute in Redis is never older than what was stored before,       *)
(* unless a write has passed an actor on its way with older balances: the  *)
(* get and the set of storePowercardBalancesInCache need no lock as long   *)
(* as newer balances do not overtake older ones.                           *)
(***************************************************************************)
THEOREM NotOlder == Spec => []NotOlderUnlessOvertaken
<1>1. IInv => NotOlderUnlessOvertaken
  BY DEF IInv
<1> QED
  BY <1>1, Invariance, PTL

(***************************************************************************)
(* Redis has all the balances of the card or none, unless the key went     *)
(* away under a ticket message that had found it there.                    *)
(***************************************************************************)
THEOREM Whole == Spec => []WholeUnlessVanished
<1>1. IInv => WholeUnlessVanished
  BY DEF IInv
<1> QED
  BY <1>1, Invariance, PTL
=============================================================================
