------------------------------ MODULE BalanceCache ------------------------------
(***************************************************************************)
(* MarsService and MarsCachingService: the balances of one powercard that  *)
(* are cached in Redis.                                                    *)
(*                                                                         *)
(* Users' queries, balance messages and recharges all write them.  A write *)
(* is two calls of Redis: get the cached balances, then set them merged    *)
(* with the new ones, an attribute that is not provided keeping its cached *)
(* value.  Nothing orders two writers.                                     *)
(*                                                                         *)
(* An attribute is the number of the last change at MARS it reflects, and  *)
(* 0 when it is absent.  "chips" stands for every attribute a ticket       *)
(* message leaves out and the cache keeps, "points" for the two (reward    *)
(* points and eligible rewards) the cache does not know.                   *)
(***************************************************************************)
EXTENDS Naturals

CONSTANTS
  Last,          \* bound: the changes of the balances at MARS
  TicketChange,  \* changes that touch the tickets only
  User,          \* users, each with one query at a time
  Buyer          \* recharges of the card

Message == 1..Last
Actor == Message \cup User \cup Buyer

ASSUME CacheAssumption ==
  /\ Last \in Nat
  /\ TicketChange \subseteq Message
  /\ User \cap Message = {} /\ Buyer \cap Message = {} /\ User \cap Buyer = {}

Attr == {"tickets", "chips", "points"}
Kept == {"tickets", "chips"}
Balances == [Attr -> 0..Last + 1]
Nothing == [a \in Attr |-> 0]

VARIABLES
  mars,       \* the balances at MARS; 1 is their value at first
  sent,       \* changes so far, each with its message
  cache,      \* the balances in Redis; Nothing when the key is absent
  pc,         \* the next await of each handler, query and recharge
  new,        \* the balances an actor has pulled or been answered
  old,        \* the balances it found in Redis
  floor,      \* history: the newest value of each attribute that was stored
  overtaken,  \* history: a write has passed another actor with older balances
  vanished    \* history: the key went away under a ticket message

vars == <<mars, sent, cache, pc, new, old, floor, overtaken, vanished>>

Ended == {"failed", "done"}
Labels == Ended \cup
  {"unsent", "queued", "idle", "look", "read", "pull", "get", "set",
   "merge", "write", "drop", "timer"}

TypeOK ==
  /\ mars \in [Attr -> 1..Last + 1] /\ sent \in 0..Last
  /\ cache \in Balances
  /\ pc \in [Actor -> Labels]
  /\ new \in [Actor -> Balances] /\ old \in [Actor -> Balances]
  /\ floor \in Balances
  /\ overtaken \in BOOLEAN /\ vanished \in BOOLEAN

Init ==
  /\ mars = [a \in Attr |-> 1] /\ sent = 0
  /\ cache = Nothing
  /\ pc = [o \in Actor |-> IF o \in Message THEN "unsent" ELSE "idle"]
  /\ new = [o \in Actor |-> Nothing] /\ old = [o \in Actor |-> Nothing]
  /\ floor = Nothing
  /\ overtaken = FALSE /\ vanished = FALSE

-----------------------------------------------------------------------------
(* MARS *)

\* The balances after change m, and what the message about it provides.
Changed(m) ==
  [a \in Attr |-> IF m \in TicketChange /\ a # "tickets" THEN mars[a] ELSE m + 1]
Provided(m) ==
  [a \in Attr |-> IF m \in TicketChange /\ a # "tickets" THEN 0 ELSE m + 1]

\* The customer plays, or a store changes the balances.
Change ==
  /\ sent < Last
  /\ sent' = sent + 1
  /\ mars' = Changed(sent + 1)
  /\ pc' = [pc EXCEPT ![sent + 1] = "queued"]
  /\ UNCHANGED <<cache, new, old, floor, overtaken, vanished>>

-----------------------------------------------------------------------------
(* cardBalancesMultiple: from the cache, else from MARS *)

\* Where an actor's fetch leaves it, and where an error does.
Fetched(o) == IF o \in User THEN "idle" ELSE IF o \in Message THEN "merge" ELSE "done"
Failed(o) == IF o \in User THEN "idle" ELSE IF o \in Message THEN "failed" ELSE "done"

\* On to an await where no balances are in hand.
Goes(o, to) ==
  /\ pc' = [pc EXCEPT ![o] = to]
  /\ new' = [new EXCEPT ![o] = Nothing]
  /\ old' = [old EXCEPT ![o] = Nothing]

\* Mutant: the balances of the rows are not looked for.
StartUnfetched(o) ==
  /\ \/ o \in User /\ pc[o] = "idle" /\ Goes(o, "read")
     \/ o \in Message /\ pc[o] = "queued" /\ Goes(o, "merge")
  /\ UNCHANGED <<mars, sent, cache, floor, overtaken, vanished>>

\* A query of a user, and the handler of a message, which looks for the rows
\* of the card and their balances first; it may find the card marked invalid.
Start(o) ==
  /\ \/ o \in User /\ pc[o] = "idle" /\ Goes(o, "read")
     \/ o \in Message /\ pc[o] = "queued" /\ Goes(o, "read")
     \/ o \in Message /\ pc[o] = "queued" /\ Goes(o, "failed")
  /\ UNCHANGED <<mars, sent, cache, floor, overtaken, vanished>>

Read(o) ==
  /\ pc[o] = "read"
  /\ \/ Goes(o, IF cache = Nothing THEN "pull" ELSE Fetched(o))
     \/ Goes(o, Failed(o))
  /\ UNCHANGED <<mars, sent, cache, floor, overtaken, vanished>>

\* MARS knows the card, so its answer is to be cached.
Pull(o) ==
  /\ pc[o] = "pull"
  /\ \/ /\ pc' = [pc EXCEPT ![o] = "get"]
        /\ new' = [new EXCEPT ![o] = mars] /\ UNCHANGED old
     \/ Goes(o, Failed(o))
  /\ UNCHANGED <<mars, sent, cache, floor, overtaken, vanished>>

-----------------------------------------------------------------------------
(* storePowercardBalancesInCache: get, merge, set *)

\* Mutant: an attribute that is not provided gets its value on a new card.
MergedWithDefaults(provided, cached) ==
  [a \in Attr |-> IF a \in Kept
                  THEN IF provided[a] # 0 \/ cached[a] = 0 THEN provided[a] ELSE 1
                  ELSE 0]

Merged(provided, cached) ==
  [a \in Attr |-> IF a \in Kept
                  THEN IF provided[a] # 0 THEN provided[a] ELSE cached[a] ELSE 0]

\* What an actor is about to store: what it pulled, or what its message provides.
ToStore(o) == IF o \in Message /\ pc[o] \in {"merge", "write"} THEN Provided(o) ELSE new[o]

\* What an actor may still write, as far as it is known.
Carried(o) ==
  (IF o \in Message /\ pc[o] \in {"queued", "read", "pull", "get", "set", "merge"}
   THEN {Provided(o)} ELSE {})
  \cup (IF pc[o] \in {"get", "look"} \/ (o \in Buyer /\ pc[o] = "merge") THEN {new[o]} ELSE {})
  \cup (IF pc[o] \in {"set", "write"} THEN {Merged(ToStore(o), old[o])} ELSE {})

GetCached(o) ==
  /\ \/ /\ pc[o] \in {"get", "merge"}
        /\ pc' = [pc EXCEPT ![o] = IF pc[o] = "get" THEN "set" ELSE "write"]
        /\ old' = [old EXCEPT ![o] = cache] /\ UNCHANGED new
     \/ pc[o] \in {"get", "merge"} /\ Goes(o, Failed(o))
  /\ UNCHANGED <<mars, sent, cache, floor, overtaken, vanished>>

\* Where an actor goes once its balances are stored.
Stored(o) ==
  IF pc[o] = "set" THEN Fetched(o) ELSE IF o \in Message THEN "done" ELSE "drop"

\* The balances are set, with a new expiration.
SetCached(o) ==
  LET w == Merged(ToStore(o), old[o])
      written ==
        /\ cache' = w
        /\ floor' = [a \in Attr |-> IF w[a] > floor[a] THEN w[a] ELSE floor[a]]
        /\ overtaken' = (overtaken \/ \E p \in Actor : \E d \in Carried(p), a \in Kept :
                                        d[a] # 0 /\ d[a] < w[a])
  IN  /\ pc[o] \in {"set", "write"}
      /\ \/ Goes(o, Stored(o)) /\ written
         \/ Goes(o, Failed(o)) /\ written
         \/ Goes(o, Failed(o)) /\ UNCHANGED <<cache, floor, overtaken>>
      /\ UNCHANGED <<mars, sent, vanished>>

-----------------------------------------------------------------------------
(* cardRecharge *)

\* The key goes away; a ticket message may have relied on it.
Vanishes ==
  /\ cache' = Nothing
  /\ vanished' = (vanished \/ \E m \in TicketChange : pc[m] = "merge")

\* MARS applies the recharge and answers with the balances.
CardRecharge(o) ==
  /\ o \in Buyer /\ pc[o] = "idle" /\ sent < Last /\ sent + 1 \notin TicketChange
  /\ sent' = sent + 1
  /\ mars' = Changed(sent + 1)
  /\ pc' = [pc EXCEPT ![sent + 1] = "queued", ![o] = "look"]
  /\ new' = [new EXCEPT ![o] = mars']
  /\ UNCHANGED <<cache, old, floor, overtaken, vanished>>

\* updatePowercardBalancesInCache looks for cached balances, and sets every
\* attribute of the answer in what it finds.
UpdateBalances(o) ==
  /\ pc[o] = "look"
  /\ \/ pc' = [pc EXCEPT ![o] = "merge"] /\ UNCHANGED <<new, old>>
     \/ Goes(o, "done")
  /\ UNCHANGED <<mars, sent, cache, floor, overtaken, vanished>>

\* The balances are dropped again, to be fetched when the timer fires.
Invalidate(o) ==
  /\ pc[o] = "drop"
  /\ \/ Goes(o, "timer") /\ Vanishes
     \/ Goes(o, "done") /\ Vanishes
     \/ Goes(o, "done") /\ UNCHANGED <<cache, vanished>>
  /\ UNCHANGED <<mars, sent, floor, overtaken>>

Fire(o) ==
  /\ pc[o] = "timer" /\ Goes(o, "read")
  /\ UNCHANGED <<mars, sent, cache, floor, overtaken, vanished>>

-----------------------------------------------------------------------------
(* Around the operations *)

\* Mutant: the balances are stored without an expiration.
ExpireNever ==
  /\ cache # Nothing /\ cache' = cache /\ UNCHANGED vanished
  /\ UNCHANGED <<mars, sent, pc, new, old, floor, overtaken>>

Expire ==
  /\ cache # Nothing /\ Vanishes
  /\ UNCHANGED <<mars, sent, pc, new, old, floor, overtaken>>

Crash ==
  /\ pc' = [o \in Actor |->
             IF o \in User THEN "idle"
             ELSE IF pc[o] \in Ended \cup {"unsent", "queued", "idle"} THEN pc[o]
             ELSE Failed(o)]
  /\ new' = [o \in Actor |-> Nothing] /\ old' = [o \in Actor |-> Nothing]
  /\ UNCHANGED <<mars, sent, cache, floor, overtaken, vanished>>

-----------------------------------------------------------------------------
Fetch(o) == Read(o) \/ Pull(o) \/ GetCached(o) \/ SetCached(o)
Operation(o) ==
  \/ Start(o) \/ Fetch(o)
  \/ CardRecharge(o) \/ UpdateBalances(o) \/ Invalidate(o) \/ Fire(o)

Next == Change \/ Expire \/ Crash \/ \E o \in Actor : Operation(o)

Spec == Init /\ [][Next]_vars

(***************************************************************************)
(* Awaits settle, timers fire, messages are delivered and keys expire.     *)
(* Nobody need play, recharge or ask.                                      *)
(***************************************************************************)
Fairness ==
  /\ \A o \in Actor : WF_vars(pc[o] # "idle" /\ Operation(o))
  /\ WF_vars(Expire)

FairSpec == Spec /\ Fairness

-----------------------------------------------------------------------------
(***************************************************************************)
(* An attribute in Redis is never older than what was stored before,       *)
(* unless a write has passed another actor that was on its way with older  *)
(* balances, or a message that was still in the queue.                     *)
(***************************************************************************)
NotOlderUnlessOvertaken ==
  ~overtaken => \A a \in Kept : cache[a] = 0 \/ cache[a] >= floor[a]

(***************************************************************************)
(* Redis has all the balances of the card or none, although a ticket       *)
(* message provides one attribute: its handler has made sure that the      *)
(* others are there, unless they vanish before it merges.                  *)
(***************************************************************************)
WholeUnlessVanished ==
  ~vanished => (cache["tickets"] = 0 <=> cache["chips"] = 0)

\* When the balances stop changing, what is cached becomes and stays current.
BalancesConverge == <>[](\A a \in Kept : cache[a] \in {0, mars[a]})

-----------------------------------------------------------------------------
(* The inductive invariant *)

\* MARS is as new as anything that was ever sent, held, or stored.
MarsIsNewest ==
  /\ \A a \in Attr : mars[a] <= sent + 1 /\ floor[a] <= mars[a] /\ cache[a] <= mars[a]
  /\ \A o \in Actor, a \in Attr : new[o][a] <= mars[a] /\ old[o][a] <= mars[a]
  /\ \A m \in Message :
       /\ pc[m] # "unsent" => m <= sent
       /\ m <= sent => \A a \in Attr : Provided(m)[a] <= mars[a]

\* Actors who carry balances carry no older ones than were stored.
NoneCarriesOlder ==
  ~overtaken => \A o \in Actor : \A d \in Carried(o), a \in Kept : d[a] = 0 \/ d[a] >= floor[a]

\* Each await belongs to its actors, and what was pulled or answered is whole.
Shape ==
  \A o \in Actor :
    /\ pc[o] \in {"get", "set", "look"} => new[o]["chips"] # 0 /\ new[o]["tickets"] # 0
    /\ (o \in Buyer /\ pc[o] \in {"merge", "write"}) => new[o]["chips"] # 0 /\ new[o]["tickets"] # 0
    /\ pc[o] \in {"merge", "write"} => o \notin User
    /\ pc[o] \in {"look", "drop", "timer"} => o \in Buyer

\* A ticket message that is about to merge finds the other attributes, and
\* has them in hand when it writes.
MergesWithWhole ==
  ~vanished => \A m \in TicketChange :
    /\ pc[m] = "merge" => cache["chips"] # 0
    /\ pc[m] = "write" => old[m]["chips"] # 0

\* Redis never has the attributes the cache does not know.
PointsUnknown == cache["points"] = 0

IInv ==
  /\ TypeOK /\ MarsIsNewest /\ NoneCarriesOlder
  /\ Shape /\ MergesWithWhole /\ PointsUnknown
  /\ NotOlderUnlessOvertaken /\ WholeUnlessVanished

=============================================================================
