------------------------------- MODULE CheckCache -------------------------------
(***************************************************************************)
(* PowercardService and MarsService: the cached copies of one restaurant   *)
(* check, under its own key and in the check lists of the tags (GUIDs) of  *)
(* its table.                                                              *)
(*                                                                         *)
(* MARS sends a message for each change of the check.  The handler pulls   *)
(* the check and the lists again when some copy is cached, and drops the   *)
(* copies when the check is closed.  Meanwhile users read the copies, and  *)
(* fill them when they are missing.  Nothing orders these operations: each *)
(* reads, awaits and writes.                                               *)
(*                                                                         *)
(* The check is its version: version v is what MARS has after v changes,   *)
(* and message v announces it.  A key of Redis holds at most one version.  *)
(***************************************************************************)
EXTENDS Naturals

CONSTANTS
  Last,      \* bound: the changes of the check; the last one closes it
  Due,       \* what is due in each version, which tells versions apart
  MaxLag,    \* changes by which the answers of MARS may lag
  Retries,   \* checkRetryCount
  Guid,      \* tags of the table
  User       \* users at the table, each with one query at a time

Version == 0..Last
Message == 1..Last
Actor == Message \cup User

ASSUME CheckAssumption ==
  /\ Last \in Nat \ {0} /\ MaxLag \in Nat /\ Retries \in Nat
  /\ Due \in [Version -> Nat]
  /\ User \cap Nat = {}

VARIABLES
  mars,      \* the version MARS has
  served,    \* the version it answers with
  check,     \* the version cached under the key of the check, if any
  lists,     \* the version in the cached list of each tag, if any
  rows,      \* tags whose row in the database points to the table
  pc,        \* the next await of each handler and query
  got,       \* the version an actor has in hand
  found,     \* the handler found a cached copy
  left,      \* pulls of the check the handler may still repeat
  todo,      \* tags a handler has yet to visit
  tag        \* the tag whose list an actor pulls

marsVars == <<mars, served>>
cacheVars == <<check, lists>>
handlerVars == <<found, left, todo>>
vars == <<marsVars, cacheVars, rows, pc, got, handlerVars, tag>>

AtMostOne == {{}} \cup {{v} : v \in Version}
Ended == {"ignored", "failed", "done"}
Labels == Ended \cup
  {"unsent", "queued", "findTables", "tables", "pull", "storePulled", "dropCheck",
   "findDrop", "dropTables", "findLists", "pullList", "storeList", "storeChecks",
   "deleteRow", "idle"}

TypeOK ==
  /\ mars \in Version /\ served \in 0..mars
  /\ check \in AtMostOne
  /\ lists \in [Guid -> AtMostOne]
  /\ rows \subseteq Guid
  /\ pc \in [Actor -> Labels]
  /\ got \in [Actor -> Version]
  /\ found \in [Message -> BOOLEAN]
  /\ left \in [Message -> 0..Retries]
  /\ todo \in [Message -> SUBSET Guid]
  /\ tag \in [Actor -> Guid]

Init ==
  /\ mars = 0 /\ served = 0
  /\ check = {}
  /\ lists = [g \in Guid |-> {}]
  /\ rows = Guid
  /\ pc = [a \in Actor |-> IF a \in User THEN "idle" ELSE "unsent"]
  /\ got = [a \in Actor |-> 0]
  /\ found = [m \in Message |-> FALSE]
  /\ left = [m \in Message |-> Retries]
  /\ todo = [m \in Message |-> {}]
  /\ tag \in [Actor -> Guid]

-----------------------------------------------------------------------------
(* MARS *)

\* The check changes, and MARS sends the message.
Change ==
  /\ mars < Last
  /\ mars' = mars + 1
  /\ served' \in {v \in served..mars + 1 : v + MaxLag >= mars + 1}
  /\ pc' = [pc EXCEPT ![mars + 1] = "queued"]
  /\ UNCHANGED <<cacheVars, rows, got, handlerVars, tag>>

CatchUp ==
  /\ served < mars
  /\ served' = served + 1
  /\ UNCHANGED <<mars, cacheVars, rows, pc, got, handlerVars, tag>>

-----------------------------------------------------------------------------
(* sessionIsActiveForCheck: is some copy of the check cached? *)

Goes(a, from, to) == pc[a] = from /\ pc' = [pc EXCEPT ![a] = to]

\* A version stays in an actor's hand until it is stored.
Holds(a, v) ==
  got' = [got EXCEPT ![a] =
            IF pc'[a] \in {"storePulled", "storeList", "storeChecks"} THEN v ELSE 0]

\* What the handler does once it has asked for every copy.
Session(m, active) ==
  IF ~active THEN "ignored" ELSE IF m = Last THEN "dropCheck" ELSE "pull"

CheckCached(m) ==
  /\ \/ Goes(m, "queued", "findTables") /\ found' = [found EXCEPT ![m] = check # {}]
     \/ Goes(m, "queued", "failed") /\ UNCHANGED found
  /\ UNCHANGED <<marsVars, cacheVars, rows, got, left, todo, tag>>

FindTables(m) ==
  /\ \/ Goes(m, "findTables", IF rows = {} THEN Session(m, found[m]) ELSE "tables")
     \/ Goes(m, "findTables", "failed")
  /\ todo' = [todo EXCEPT ![m] = rows]
  /\ UNCHANGED <<marsVars, cacheVars, rows, got, found, left, tag>>

TableCached(m) ==
  /\ \/ \E g \in todo[m] :
          LET rest == todo[m] \ {g}
              active == found[m] \/ lists[g] # {}
          IN  /\ todo' = [todo EXCEPT ![m] = rest]
              /\ found' = [found EXCEPT ![m] = active]
              /\ Goes(m, "tables", IF rest = {} THEN Session(m, active) ELSE "tables")
     \/ Goes(m, "tables", "failed") /\ UNCHANGED <<found, todo>>
  /\ UNCHANGED <<marsVars, cacheVars, rows, got, left, tag>>

-----------------------------------------------------------------------------
(* check: ask the cache unless refreshing, then pull and store *)

\* A query that finds the check cached changes nothing.
ReadCheck(u) ==
  /\ check = {} /\ Goes(u, "idle", "pull")
  /\ UNCHANGED <<marsVars, cacheVars, rows, got, handlerVars, tag>>

\* Where an operation that fails leaves its actor.
Failed(a) == IF a \in User THEN "idle" ELSE "failed"

Pull(a) ==
  /\ Goes(a, "pull", "storePulled") \/ Goes(a, "pull", Failed(a))
  /\ Holds(a, served)
  /\ UNCHANGED <<marsVars, cacheVars, rows, handlerVars, tag>>

\* The handler compares what it stored with the message, and tries again.
Settles(m) == Due[got[m]] = Due[m]

MayRetry(m) == left[m] > 0

\* Mutant: the retries are not counted.
RetryUncounted(m) == UNCHANGED left

Retry(m) == left' = [left EXCEPT ![m] = @ - 1]

StorePulled(a) ==
  /\ \/ /\ a \in User /\ Goes(a, "storePulled", "idle")
        /\ check' = {got[a]} /\ UNCHANGED left
     \/ /\ a \in Message /\ Settles(a) /\ Goes(a, "storePulled", "findLists")
        /\ check' = {got[a]} /\ UNCHANGED left
     \/ /\ a \in Message /\ ~Settles(a) /\ MayRetry(a) /\ Goes(a, "storePulled", "pull")
        /\ check' = {got[a]} /\ Retry(a)
     \/ /\ Goes(a, "storePulled", Failed(a))
        /\ check' \in {check, {got[a]}} /\ UNCHANGED left
  /\ Holds(a, got[a])
  /\ UNCHANGED <<marsVars, lists, rows, found, todo, tag>>

-----------------------------------------------------------------------------
(* A closed check leaves the cache *)

DropCheck(m) ==
  /\ \/ Goes(m, "dropCheck", "findDrop") /\ check' = {}
     \/ Goes(m, "dropCheck", "failed") /\ check' \in {check, {}}
  /\ UNCHANGED <<marsVars, lists, rows, got, handlerVars, tag>>

FindDrop(m) ==
  /\ \/ Goes(m, "findDrop", IF rows = {} THEN "findLists" ELSE "dropTables")
     \/ Goes(m, "findDrop", "failed")
  /\ todo' = [todo EXCEPT ![m] = rows]
  /\ UNCHANGED <<marsVars, cacheVars, rows, got, found, left, tag>>

DropTable(m) ==
  /\ \E g \in todo[m] :
       /\ todo' = [todo EXCEPT ![m] = @ \ {g}]
       /\ \/ /\ Goes(m, "dropTables", IF todo'[m] = {} THEN "findLists" ELSE "dropTables")
             /\ lists' = [lists EXCEPT ![g] = {}]
          \/ /\ Goes(m, "dropTables", "failed")
             /\ lists' \in {lists, [lists EXCEPT ![g] = {}]}
  /\ UNCHANGED <<marsVars, check, rows, got, found, left, tag>>

-----------------------------------------------------------------------------
(* checkList: the list of a tag, whose unpaid checks are stored one by one *)

FindLists(m) ==
  /\ \/ Goes(m, "findLists", IF rows = {} THEN "done" ELSE "pullList")
     \/ Goes(m, "findLists", "failed")
  /\ todo' = [todo EXCEPT ![m] = rows]
  /\ tag' \in {[tag EXCEPT ![m] = g] : g \in IF rows = {} THEN {tag[m]} ELSE rows}
  /\ UNCHANGED <<marsVars, cacheVars, rows, got, found, left>>

\* The list of an actor is done; a handler goes on to the next tag.
NextTag(a, from) ==
  IF a \in User
  THEN Goes(a, from, "idle") /\ UNCHANGED <<todo, tag>>
  ELSE LET rest == todo[a] \ {tag[a]}
       IN  /\ todo' = [todo EXCEPT ![a] = rest]
           /\ \/ rest = {} /\ Goes(a, from, "done") /\ UNCHANGED tag
              \/ /\ rest # {} /\ Goes(a, from, "pullList")
                 /\ tag' \in {[tag EXCEPT ![a] = g] : g \in rest}

\* An error of the list: the handler removes the tag, a query just fails.
ListFails(a, from) ==
  /\ Goes(a, from, IF a \in User THEN "idle" ELSE "deleteRow")
  /\ UNCHANGED <<todo, tag>>

\* Checks with nothing due are filtered out before the others are stored.
AfterList(a, from) ==
  IF Due[got[a]] > 0
  THEN Goes(a, from, "storeChecks") /\ UNCHANGED <<todo, tag>>
  ELSE NextTag(a, from)

\* Mutant: a list from the cache is stored like one from MARS.
ReadListRestores(u, g) ==
  /\ tag' = [tag EXCEPT ![u] = g]
  /\ \/ /\ lists[g] = {} /\ Goes(u, "idle", "pullList") /\ UNCHANGED got
     \/ /\ \E v \in lists[g] : got' = [got EXCEPT ![u] = v]
        /\ Goes(u, "idle", "storeList")
  /\ UNCHANGED <<marsVars, cacheVars, rows, handlerVars>>

\* The query of a user, from the cache when it is there.
ReadList(u, g) ==
  /\ tag' = [tag EXCEPT ![u] = g]
  /\ \/ /\ lists[g] = {} /\ Goes(u, "idle", "pullList") /\ UNCHANGED got
     \/ \E v \in lists[g] :
          /\ got' = [got EXCEPT ![u] = v]
          /\ Due[v] > 0 /\ Goes(u, "idle", "storeChecks")
  /\ UNCHANGED <<marsVars, cacheVars, rows, handlerVars>>

PullList(a) ==
  /\ \/ Goes(a, "pullList", "storeList") /\ UNCHANGED <<todo, tag>>
     \/ ListFails(a, "pullList")
  /\ Holds(a, served)
  /\ UNCHANGED <<marsVars, cacheVars, rows, found, left>>

StoreList(a) ==
  LET stored == [lists EXCEPT ![tag[a]] = {got[a]}]
  IN  /\ \/ AfterList(a, "storeList") /\ lists' = stored
         \/ ListFails(a, "storeList") /\ lists' \in {lists, stored}
      /\ Holds(a, got[a])
      /\ UNCHANGED <<marsVars, check, rows, found, left>>

StoreChecks(a) ==
  /\ \/ NextTag(a, "storeChecks") /\ check' = {got[a]}
     \/ ListFails(a, "storeChecks") /\ check' \in {check, {got[a]}}
  /\ Holds(a, got[a])
  /\ UNCHANGED <<marsVars, lists, rows, found, left>>

\* Whatever the error was, the tag is taken for an invalid one.
DeleteRow(m) ==
  /\ \/ NextTag(m, "deleteRow") /\ rows' = rows \ {tag[m]}
     \/ /\ Goes(m, "deleteRow", "failed") /\ rows' \in {rows, rows \ {tag[m]}}
        /\ UNCHANGED <<todo, tag>>
  /\ UNCHANGED <<marsVars, cacheVars, got, found, left>>

-----------------------------------------------------------------------------
(* Around the operations *)

\* handleInboundTableGuidMessage: the tag now belongs to this table, or to
\* another one.  The row it finds only gives the id of the row it saves.
TableMessage(g) ==
  /\ rows' \in {rows \cup {g}, rows \ {g}}
  /\ UNCHANGED <<marsVars, cacheVars, pc, got, handlerVars, tag>>

ExpireCheck ==
  /\ check # {}
  /\ check' = {}
  /\ UNCHANGED <<marsVars, lists, rows, pc, got, handlerVars, tag>>

ExpireList(g) ==
  /\ lists[g] # {}
  /\ lists' = [lists EXCEPT ![g] = {}]
  /\ UNCHANGED <<marsVars, check, rows, pc, got, handlerVars, tag>>

Crash ==
  /\ pc' = [a \in Actor |->
             IF a \in User THEN "idle"
             ELSE IF pc[a] \in Ended \cup {"unsent", "queued"} THEN pc[a] ELSE "failed"]
  /\ got' = [a \in Actor |-> 0]
  /\ UNCHANGED <<marsVars, cacheVars, rows, handlerVars, tag>>

-----------------------------------------------------------------------------
Handler(m) ==
  \/ CheckCached(m) \/ FindTables(m) \/ TableCached(m)
  \/ DropCheck(m) \/ FindDrop(m) \/ DropTable(m) \/ FindLists(m) \/ DeleteRow(m)

Operation(a) == Pull(a) \/ StorePulled(a) \/ PullList(a) \/ StoreList(a) \/ StoreChecks(a)

Query(u) == ReadCheck(u) \/ \E g \in Guid : ReadList(u, g)

Around ==
  \/ Change \/ CatchUp \/ ExpireCheck \/ Crash
  \/ \E g \in Guid : TableMessage(g) \/ ExpireList(g)

Next ==
  \/ Around
  \/ \E m \in Message : Handler(m)
  \/ \E a \in Actor : Operation(a)
  \/ \E u \in User : Query(u)

Spec == Init /\ [][Next]_vars

(***************************************************************************)
(* Awaits settle, keys expire and messages are delivered.  The check need  *)
(* not change, users need not ask, and MARS need not catch up.             *)
(***************************************************************************)
Fairness ==
  /\ \A m \in Message : WF_vars(Handler(m) \/ Operation(m))
  /\ \A u \in User : WF_vars(Operation(u))
  /\ WF_vars(ExpireCheck)
  /\ \A g \in Guid : WF_vars(ExpireList(g))

FairSpec == Spec /\ Fairness

-----------------------------------------------------------------------------
(***************************************************************************)
(* Once MARS answers with its last version, every copy becomes that        *)
(* version and stays so, although old answers are stored late, old lists   *)
(* are read from the cache and stored as checks, and users keep asking.    *)
(***************************************************************************)
CacheConverges ==
  <>[](served = mars) =>
    <>[](check \subseteq {mars} /\ \A g \in Guid : lists[g] \subseteq {mars})

\* The handler of every message ends, even when MARS never catches up with
\* the amount the message announced.
EveryMessageEnds == \A m \in Message : pc[m] = "queued" ~> pc[m] \in Ended
=============================================================================
