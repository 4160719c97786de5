---------------------------- MODULE DelegatorFeed ----------------------------
(***************************************************************************)
(* The delegator client's event feed (getEvents of                         *)
(* src/modules/delegator/index.ts), read the way its guide reads it        *)
(* (site/src/pages/developers/guides/delegated-intents.mdx:217-226), under *)
(* requests signed by a session or by a wallet (auth.ts), and the same     *)
(* events pushed to a webhook whose receiver checks them with              *)
(* verifyDelegatorWebhook.                                                 *)
(*                                                                         *)
(* The delegator is external: it appends events, prunes old ones, reads a  *)
(* page at one moment and refuses a request that is stale or whose grant   *)
(* has run out.                                                            *)
(***************************************************************************)
EXTENDS Naturals, Sequences, FiniteSets

CONSTANTS
  MaxEvents,     \* bound: events the delegator appends
  MaxClock,      \* bound: the clock
  Limit,         \* params.limit
  Freshness,     \* how old a timestamp the delegator takes
  ExpiresInSecs  \* of the session

ASSUME DelegatorFeedAssumption ==
  /\ MaxEvents \in Nat /\ MaxClock \in Nat /\ Limit \in Nat \ {0}
  /\ Freshness \in Nat /\ ExpiresInSecs \in Nat

VARIABLES
  log,        \* the delegator: its events by cursor, TRUE for those the filter lets through
  floor,      \* the delegator: the retention floor
  clock,      \* the time
  session,    \* the session: none, being signed, or granted, and its expiresAt
  after,      \* the reader's cursor
  handled,    \* history: the cursors of the events it handled
  lost,       \* history: the cursors it was told it cannot have
  call,       \* its call of getEvents
  delivered,  \* the webhook: acknowledged up to this cursor
  received    \* history: the cursors it accepted

feedVars == <<log, floor, clock, session, after, handled, lost, call, delivered, received>>

NoSession == [stage |-> "none", expiresAt |-> 0]
Idle == [stage |-> "idle"]

FeedTypeOK ==
  /\ log \in Seq(BOOLEAN) /\ Len(log) <= MaxEvents
  /\ floor \in 0..Len(log) /\ clock \in 0..MaxClock
  /\ session \in [stage : {"none", "signing", "granted"}, expiresAt : Nat]
  /\ after \in 0..Len(log)
  /\ handled \subseteq 1..Len(log) /\ lost \subseteq 1..Len(log)
  /\ call.stage \in {"idle", "signing", "sent", "page", "unauthorized", "cursor_pruned"}
  /\ delivered \in 0..Len(log) /\ received \subseteq 1..Len(log)

FeedInit ==
  /\ log = <<>> /\ floor = 0 /\ clock = 0 /\ session = NoSession
  /\ after = 0 /\ handled = {} /\ lost = {} /\ call = Idle
  /\ delivered = 0 /\ received = {}

-----------------------------------------------------------------------------
(* The delegator. *)

Appends ==
  /\ Len(log) < MaxEvents
  /\ \E mine \in BOOLEAN : log' = Append(log, mine)
  /\ UNCHANGED <<floor, clock, session, after, handled, lost, call, delivered, received>>

PrunesEvents ==
  /\ floor' \in floor + 1..Len(log)
  /\ UNCHANGED <<log, clock, session, after, handled, lost, call, delivered, received>>

FeedTick ==
  /\ clock < MaxClock /\ clock' = clock + 1
  /\ UNCHANGED <<log, floor, session, after, handled, lost, call, delivered, received>>

-----------------------------------------------------------------------------
(* Signing. *)

\* The expiry counts from before the grantor's wallet is asked.
createNewtonSession ==
  /\ session.stage # "signing" /\ call.stage = "idle"
  /\ session' = [stage |-> "signing", expiresAt |-> clock + ExpiresInSecs]
  /\ UNCHANGED <<log, floor, clock, after, handled, lost, call, delivered, received>>

signSessionGrant ==
  /\ session.stage = "signing"
  /\ session' = [session EXCEPT !.stage = "granted"]
  /\ UNCHANGED <<log, floor, clock, after, handled, lost, call, delivered, received>>

\* The session's key signs at once, a wallet whenever its user does; the timestamp is of before.
signNewtonRequest ==
  /\ call.stage = "idle" /\ session.stage # "signing"
  /\ call' = [stage |-> IF session.stage = "granted" THEN "sent" ELSE "signing",
              timestamp |-> clock, after |-> after]
  /\ UNCHANGED <<log, floor, clock, session, after, handled, lost, delivered, received>>

WalletSignsRead ==
  /\ call.stage = "signing"
  /\ call' = [call EXCEPT !.stage = "sent"]
  /\ UNCHANGED <<log, floor, clock, session, after, handled, lost, delivered, received>>

-----------------------------------------------------------------------------
(* The call. *)

Authorized ==
  /\ clock - call.timestamp <= Freshness
  /\ session.stage = "granted" => clock < session.expiresAt

\* The events after the cursor that match, and their first Limit, or all.
Matching(from) == {c \in from + 1..Len(log) : log[c]}
FirstOf(cursors) ==
  {events \in SUBSET cursors :
     /\ \A c \in events, d \in cursors : d < c => d \in events
     /\ Cardinality(events) = Limit \/ (events = cursors /\ Cardinality(events) < Limit)}

\* Where to go on: after the last event of the page, or, when it is not full, at the end.
NextCursors(from, events) ==
  {c \in events \cup {from} : \A d \in events : d <= c}
    \cup {c \in {Len(log)} : Cardinality(events) < Limit}

RawPage(events, next) ==
  [events |-> events, next_cursor |-> next, latest_cursor |-> Len(log), retention_floor |-> floor]

\* The page goes on at the end of the log.
getEvents_Latest(raw) ==
  [events |-> raw.events, nextCursor |-> raw.latest_cursor, latestCursor |-> raw.latest_cursor,
   retentionFloor |-> raw.retention_floor]

getEvents(raw) ==
  [events |-> raw.events, nextCursor |-> raw.next_cursor, latestCursor |-> raw.latest_cursor,
   retentionFloor |-> raw.retention_floor]

\* A read of the feed, at once or when its long poll ends.
ServesEvents ==
  /\ call.stage = "sent"
  /\ IF ~Authorized THEN call' = [stage |-> "unauthorized"]
     ELSE IF call.after < floor THEN call' = [stage |-> "cursor_pruned", floor |-> floor]
     ELSE \E events \in FirstOf(Matching(call.after)) : \E next \in NextCursors(call.after, events) :
            call' = [stage |-> "page", page |-> getEvents(RawPage(events, next))]
  /\ UNCHANGED <<log, floor, clock, session, after, handled, lost, delivered, received>>

\* The request or its answer is lost, or the caller aborts it.
ReadFails ==
  /\ call.stage \in {"signing", "sent", "unauthorized"}
  /\ call' = Idle
  /\ UNCHANGED <<log, floor, clock, session, after, handled, lost, delivered, received>>

-----------------------------------------------------------------------------
(* The reader, as the guide has it. *)

HandlesPage ==
  /\ call.stage = "page"
  /\ handled' = handled \cup call.page.events
  /\ after' = call.page.nextCursor
  /\ call' = Idle
  /\ UNCHANGED <<log, floor, clock, session, lost, delivered, received>>

\* error.details.retention_floor: the error's details are the whole body.
RestartsAtFloor ==
  /\ call.stage = "cursor_pruned"
  /\ lost' = lost \cup (after + 1..call.floor)
  /\ after' = call.floor
  /\ call' = Idle
  /\ UNCHANGED <<log, floor, clock, session, handled, delivered, received>>

\* Its process ends anywhere, and `after` starts over at 0; what is pruned by then it is told of.
ReaderRestarts ==
  /\ after' = 0 /\ call' = Idle /\ session' = NoSession
  /\ UNCHANGED <<log, floor, clock, handled, lost, delivered, received>>

-----------------------------------------------------------------------------
(* The webhook. *)

\* sha256= and the hex digits of the MAC, in either case.
verifyDelegatorWebhook(signature) == signature \in {"lower", "upper"}

\* The delivery of the next event, repeated until the receiver answers 204.  Under the secret of
\* another webhook its signature is wrong, without a secret it is missing.
Delivers ==
  /\ delivered < Len(log) /\ floor <= delivered
  /\ \E signature \in {"lower", "upper", "wrong", "missing"}, acknowledged \in BOOLEAN :
       LET ok == verifyDelegatorWebhook(signature)
       IN /\ received' = IF ok THEN received \cup {delivered + 1} ELSE received
          /\ delivered' = IF ok /\ acknowledged THEN delivered + 1 ELSE delivered
  /\ UNCHANGED <<log, floor, clock, session, after, handled, lost, call>>

\* Events pruned before they were delivered: one gap in their place.
DeliversGap ==
  /\ delivered < floor
  /\ lost' = lost \cup (delivered + 1..floor)
  /\ delivered' = floor
  /\ UNCHANGED <<log, floor, clock, session, after, handled, call, received>>

FeedNext ==
  \/ Appends \/ PrunesEvents \/ FeedTick
  \/ createNewtonSession \/ signSessionGrant \/ signNewtonRequest \/ WalletSignsRead
  \/ ServesEvents \/ ReadFails
  \/ HandlesPage \/ RestartsAtFloor \/ ReaderRestarts
  \/ Delivers \/ DeliversGap

-----------------------------------------------------------------------------
(* Properties. *)

\* Nothing is skipped in silence: of the events up to the reader's cursor it has handled every
\* one its filter lets through, or was told that it is pruned, and the receiver has accepted
\* every event that it acknowledged.  getEvents passes the cursors on as the delegator means
\* them, through full pages, filters, pruning, expired sessions and restarts.
FeedIsComplete ==
  /\ \A c \in 1..after : log[c] => c \in handled \cup lost
  /\ \A c \in 1..delivered : c \in received \cup lost

\* A call under way is for the reader's cursor; a page that has come leaves out nothing up to the
\* cursor it goes on from.
CallHolds ==
  /\ call.stage \in {"signing", "sent"} =>
       call = [stage |-> call.stage, timestamp |-> call.timestamp, after |-> after]
  /\ call.stage = "page" =>
       /\ call.page.nextCursor \in 0..Len(log) /\ call.page.events \subseteq 1..Len(log)
       /\ \A c \in 1..call.page.nextCursor : log[c] => c \in call.page.events \cup handled \cup lost
  /\ call.stage = "cursor_pruned" => call.floor \in 0..Len(log)

FeedIInv == FeedTypeOK /\ CallHolds /\ FeedIsComplete
=============================================================================
