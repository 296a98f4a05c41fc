--------------------------- MODULE BrowserSessions ---------------------------
(***************************************************************************)
(* Browser sessions: SessionManager, which keeps one page per key and      *)
(* lends it to one operation at a time, and BrowserTool, which locks, uses *)
(* and releases the page of a key.                                         *)
(*                                                                         *)
(* A start creates at most one session, so it stands for the session's id  *)
(* (two starts of one key in the same millisecond, whose ids collide, are  *)
(* left out).                                                              *)
(***************************************************************************)
EXTENDS Naturals, FiniteSets

CONSTANTS
  Keys,
  Starts, Uses, Closes,  \* tool calls, each made once
  KeyOf,                 \* the session key of a call
  MaxConcurrent

NoId == "none"

ASSUME KeyOfType         == KeyOf \in [Starts \union Uses \union Closes -> Keys]
ASSUME MaxConcurrentType == MaxConcurrent \in Nat
ASSUME NoIdIsNoStart     == NoId \notin Starts

VARIABLES
  page,     \* the page of each session, or how far its start is
  listed,   \* sessions: ids in the map
  keyToId,
  locked,   \* sessions whose locked flag is set
  doing,    \* how far each use and close is, and the session it holds
  browser,  \* BrowserTool.browser
  spoilt    \* (history) keys whose session was replaced or closed under a user

browserVars == <<page, listed, keyToId, locked, doing, browser, spoilt>>

Call(s, id) == [stage |-> s, on |-> id]

BrowserTypeOK ==
  /\ page \in [Starts -> {"none", "opening", "open", "closed", "refused"}]
  /\ listed \subseteq Starts
  /\ keyToId \in [Keys -> Starts \union {NoId}]
  /\ locked \subseteq Starts
  /\ doing \in [Uses \union Closes ->
                  [stage : {"idle", "waiting", "using", "closing", "done"},
                   on : Starts \union {NoId}]]
  /\ browser \in {"up", "closing", "down"}
  /\ spoilt \subseteq Keys

BrowserInit ==
  /\ page = [p \in Starts |-> "none"]
  /\ listed = {}
  /\ keyToId = [k \in Keys |-> NoId]
  /\ locked = {}
  /\ doing = [c \in Uses \union Closes |-> Call("idle", NoId)]
  /\ browser = "up"
  /\ spoilt = {}

\* getSessionByKey: the set of the session found
Session(k) == {keyToId[k]} \intersect listed

Now(c, s, id) == doing' = [doing EXCEPT ![c] = Call(s, id)]

\* start: an existing session is returned, a new one is limited and opened.
Start(p) ==
  /\ page[p] = "none"
  /\ page' = [page EXCEPT ![p] =
       IF browser = "down" \/ Session(KeyOf[p]) # {} \/ Cardinality(listed) >= MaxConcurrent
       THEN "refused" ELSE "opening"]
  /\ UNCHANGED <<listed, keyToId, locked, doing, browser, spoilt>>

\* newContext and newPage: the key now means this session, whatever it meant.
Opened(p) ==
  /\ page[p] = "opening"
  /\ \/ /\ browser # "down"
        /\ page' = [page EXCEPT ![p] = "open"]
        /\ listed' = listed \union {p}
        /\ keyToId' = [keyToId EXCEPT ![KeyOf[p]] = p]
        /\ spoilt' = IF Session(KeyOf[p]) = {} THEN spoilt ELSE spoilt \union {KeyOf[p]}
     \/ page' = [page EXCEPT ![p] = "refused"] /\ UNCHANGED <<listed, keyToId, spoilt>>
  /\ UNCHANGED <<locked, doing, browser>>

\* acquireLock; its caller goes on to goto, snapshot, act, screenshot or extract.
AcquireLock(c) ==
  /\ doing[c].stage = "idle"
  /\ \/ Session(KeyOf[c]) = {} /\ Now(c, "done", NoId) /\ UNCHANGED locked
     \/ \E p \in Session(KeyOf[c]) :
          \/ p \in locked /\ Now(c, "waiting", p) /\ UNCHANGED locked
          \/ p \notin locked /\ Now(c, "using", p) /\ locked' = locked \union {p}
  /\ UNCHANGED <<page, listed, keyToId, browser, spoilt>>

\* (fault) the flag is not tested again after the wait
PollBlindly(c) ==
  /\ doing[c].stage = "waiting"
  /\ Now(c, "using", doing[c].on)
  /\ locked' = locked \union {doing[c].on}
  /\ UNCHANGED <<page, listed, keyToId, browser, spoilt>>

\* The flag is seen clear: of the session found at first, be it closed by now.
PollLock(c) ==
  /\ doing[c].stage = "waiting" /\ doing[c].on \notin locked
  /\ Now(c, "using", doing[c].on)
  /\ locked' = locked \union {doing[c].on}
  /\ UNCHANGED <<page, listed, keyToId, browser, spoilt>>

\* Five seconds are over
LockTimeout(c) ==
  /\ doing[c].stage = "waiting" /\ doing[c].on \in locked
  /\ Now(c, "done", NoId)
  /\ UNCHANGED <<page, listed, keyToId, locked, browser, spoilt>>

\* releaseLock: of the session the key means now
Unlocked(k) == locked' = locked \ Session(k)

\* goto, snapshot, act, screenshot or extract succeeds or throws; its finally
\* releases by key.
ReleaseLock(c) ==
  /\ doing[c].stage = "using"
  /\ Now(c, "done", NoId)
  /\ Unlocked(KeyOf[c])
  /\ UNCHANGED <<page, listed, keyToId, browser, spoilt>>

\* closeSession up to its first await, whether or not the page is in use
CloseSession(c) ==
  /\ doing[c].stage = "idle"
  /\ \/ Session(KeyOf[c]) = {} /\ Now(c, "done", NoId)
     \/ \E p \in Session(KeyOf[c]) : Now(c, "closing", p)
  /\ UNCHANGED <<page, listed, keyToId, locked, browser, spoilt>>

InUse(p) == \E c \in Uses : doing[c].on = p

\* The entry of the session goes, and the entry of the key, whatever it means now.
Closed(c) ==
  /\ doing[c].stage = "closing"
  /\ Now(c, "done", NoId)
  /\ page' = [page EXCEPT ![doing[c].on] = "closed"]
  /\ listed' = listed \ {doing[c].on}
  /\ keyToId' = [keyToId EXCEPT ![KeyOf[c]] = NoId]
  /\ spoilt' = IF InUse(doing[c].on) \/ keyToId[KeyOf[c]] \notin {doing[c].on, NoId}
               THEN spoilt \union {KeyOf[c]} ELSE spoilt
  /\ UNCHANGED <<locked, browser>>

\* BrowserTool.close: closeAll ...
CloseAll ==
  /\ browser = "up"
  /\ browser' = "closing"
  /\ UNCHANGED <<page, listed, keyToId, locked, doing, spoilt>>

\* ... then both maps are cleared and the browser ends with all its pages.
BrowserClosed ==
  /\ browser = "closing"
  /\ browser' = "down"
  /\ page' = [p \in Starts |-> IF page[p] = "open" THEN "closed" ELSE page[p]]
  /\ listed' = {}
  /\ keyToId' = [k \in Keys |-> NoId]
  /\ spoilt' = spoilt \union {KeyOf[p] : p \in {q \in Starts : InUse(q)}}
  /\ UNCHANGED <<locked, doing>>

BrowserNext ==
  \/ \E p \in Starts : Start(p) \/ Opened(p)
  \/ \E c \in Uses : AcquireLock(c) \/ PollLock(c) \/ LockTimeout(c) \/ ReleaseLock(c)
  \/ \E c \in Closes : CloseSession(c) \/ Closed(c)
  \/ CloseAll \/ BrowserClosed

BrowserSpec == BrowserInit /\ [][BrowserNext]_browserVars

-----------------------------------------------------------------------------
Using(k) == {c \in Uses : doing[c].stage = "using" /\ KeyOf[c] = k}

\* A page serves one operation at a time, a lock is held only while one does,
\* and every open page can be reached by its key, so that it can be closed:
\* except for a key whose page was replaced by a concurrent start or closed
\* while an operation used it or waited for it.
PageIsLent ==
  \A k \in Keys \ spoilt :
    /\ Cardinality(Using(k)) <= 1
    /\ \A p \in Starts : KeyOf[p] = k =>
         /\ p \in locked => \E c \in Using(k) : doing[c].on = p
         /\ page[p] = "open" => keyToId[k] = p /\ p \in listed
=============================================================================
