----------------------------- MODULE EventPipes -----------------------------
(***************************************************************************)
(* The telemetry source in the renderer: the mock games (EventMockPipe),   *)
(* the bounded queue they fill, the visitor that empties it, and the       *)
(* session whose profile every event is tagged with as it is enqueued.     *)
(*                                                                         *)
(* JavaScript runs each handler and timer to its end, so a step is a whole *)
(* click or tick, up to its first await.  enqueue throws when the queue is *)
(* full, and the handler stops there, half done: the actions say how far   *)
(* it comes when only some of its events fit.                              *)
(*                                                                         *)
(* Simplifications:                                                        *)
(*  - The queue is the number of its events.  What the events of a game    *)
(*    say together is kept in the history fields of the game.              *)
(*  - The order of the cards is left out: a logout may close them in any.  *)
(*  - Handlers that throw before they change anything are not steps.       *)
(***************************************************************************)
EXTENDS Integers, FiniteSets, GameRules

CONSTANTS
  Pipes,      \* the EventMockPipe objects that can be made
  Users,      \* profiles
  None,       \* nobody is signed in, or no game
  MaxSize,    \* capacity of the queue
  MaxLogouts  \* bound: clicks on "Log Out" that wait for the backend at a time

ASSUME PipesAssumption == IsFiniteSet(Pipes)
ASSUME NoneAssumption == None \notin Users \cup Games
ASSUME SizesAssumption == MaxSize \in Nat /\ MaxLogouts \in Nat

VARIABLES
  profile,  \* authService.userProfile
  logouts,  \* logouts that wait for the backend's answer
  queued,   \* events in the queue
  pipe      \* each pipe, its card in App, and its history

vars == <<profile, logouts, queued, pipe>>

\* What the events of a game, in the order they entered the queue, amount to.
Phases == {"none", "open", "match", "closed", "malformed"}

Pipe == [state: {"none", "idle", "streaming", "closed"},   \* _state, "none" before new
         game: Games \cup {None},                          \* gameId, and its ruleset
         timer: BOOLEAN,                                   \* intervalId
         shown: {"none", "idle", "streaming", "closed"},   \* PipeEntry.state, or no card
         phase: Phases,                                    \* history
         opener: Users \cup {None},                        \* history: who opened the game
         late: BOOLEAN,                                    \* history: during a logout
         users: SUBSET (Users \cup {None})]                \* history: tags of its events

NoPipe == [state |-> "none", game |-> None, timer |-> FALSE, shown |-> "none", phase |-> "none",
           opener |-> None, late |-> FALSE, users |-> {}]

TypeOK ==
  /\ profile \in Users \cup {None}
  /\ logouts \in 0..MaxLogouts
  /\ queued \in 0..MaxSize
  /\ pipe \in [Pipes -> Pipe]

Init ==
  /\ profile = None
  /\ logouts = 0
  /\ queued = 0
  /\ pipe = [p \in Pipes |-> NoPipe]

\* Mutant of Room: the queue is full when it has more events than its capacity.
RoomOffByOne == MaxSize + 1 - queued

\* The events that enqueue accepts before it throws.
Room == MaxSize - queued

\* A game is opened, holds matches one after the other, and is closed.
Accept(phase, type) ==
  CASE phase = "none" /\ type = "game_opened" -> "open"
    [] phase = "open" /\ type = "match_started" -> "match"
    [] phase = "match" /\ type = "action" -> "match"
    [] phase = "match" /\ type = "match_ended" -> "open"
    [] phase = "open" /\ type = "game_closed" -> "closed"
    [] OTHER -> "malformed"

\* enqueueGameEvent while there is room.
Enqueue(c, type) ==
  [c EXCEPT !.phase = Accept(c.phase, type), !.users = c.users \cup {profile}]

\* The rest of endMatch, then the rest of close, once their event is enqueued.
Ended(c) == [Enqueue(c, "match_ended") EXCEPT !.state = "idle", !.timer = FALSE]
Closed(c) == [Enqueue(c, "game_closed") EXCEPT !.state = "closed"]

\* close() when the queue has room for that many events.
Close(c, room) ==
  CASE c.state \in {"none", "closed"} -> c
    [] c.state = "idle" -> IF room = 0 THEN c ELSE Closed(c)
    [] c.state = "streaming" -> IF room = 0 THEN [c EXCEPT !.timer = FALSE]
                                ELSE IF room = 1 THEN Ended(c) ELSE Closed(Ended(c))

\* The events that closing the pipes of D takes.
Cost(D) == Cardinality({p \in D : pipe[p].state \in {"idle", "streaming"}})
             + Cardinality({p \in D : pipe[p].state = "streaming"})

-----------------------------------------------------------------------------
(* The cards of App.  Buttons exist for what a card shows, which may be    *)
(* behind the state of its pipe after a handler that threw.                *)

HasButtons(p, shown) == profile # None /\ pipe[p].shown = shown

Show(p, c) == pipe' = [pipe EXCEPT ![p] = [c EXCEPT !.shown = c.state]]

OpenGame(p, game) ==
  /\ profile # None
  /\ pipe[p].state = "none"
  /\ Room > 0
  /\ Show(p, Enqueue([NoPipe EXCEPT !.state = "idle", !.game = game, !.opener = profile,
                                    !.late = logouts > 0], "game_opened"))
  /\ queued' = queued + 1
  /\ UNCHANGED <<profile, logouts>>

\* Mutant of StartMatch: the state is set before the event is enqueued.
StartMatchStateFirst(p) ==
  LET c == [pipe[p] EXCEPT !.state = "streaming"] IN
  /\ HasButtons(p, "idle") /\ pipe[p].state = "idle"
  /\ IF Room > 0
       THEN Show(p, [Enqueue(c, "match_started") EXCEPT !.timer = TRUE]) /\ queued' = queued + 1
       ELSE Show(p, c) /\ UNCHANGED queued
  /\ UNCHANGED <<profile, logouts>>

StartMatch(p) ==
  LET c == pipe[p] IN
  /\ HasButtons(p, "idle")
  /\ \/ /\ c.state = "idle" /\ Room > 0
        /\ Show(p, [Enqueue(c, "match_started") EXCEPT !.state = "streaming", !.timer = TRUE])
        /\ queued' = queued + 1
     \/ c.state # "idle" /\ Show(p, c) /\ UNCHANGED queued
  /\ UNCHANGED <<profile, logouts>>

\* The timer is cleared before MATCH_ENDED is enqueued.
EndMatch(p) ==
  LET c == pipe[p] IN
  /\ HasButtons(p, "streaming")
  /\ \/ c.state = "streaming" /\ Room > 0 /\ Show(p, Ended(c)) /\ queued' = queued + 1
     \/ /\ c.state = "streaming" /\ Room = 0
        /\ pipe' = [pipe EXCEPT ![p].timer = FALSE]
        /\ UNCHANGED queued
     \/ c.state # "streaming" /\ Show(p, c) /\ UNCHANGED queued
  /\ UNCHANGED <<profile, logouts>>

\* A new rate starts a new timer.
SetRate(p) ==
  LET c == pipe[p] IN
  /\ HasButtons(p, "streaming")
  /\ Show(p, [c EXCEPT !.timer = c.timer \/ c.state = "streaming"])
  /\ UNCHANGED <<profile, logouts, queued>>

\* The card goes when close has returned.
CloseGame(p) ==
  /\ HasButtons(p, "idle")
  /\ Cost({p}) <= Room
  /\ pipe' = [pipe EXCEPT ![p] = [Close(pipe[p], Room) EXCEPT !.shown = "none"]]
  /\ queued' = queued + Cost({p})
  /\ UNCHANGED <<profile, logouts>>

-----------------------------------------------------------------------------
(* Timers.                                                                 *)

\* emitGameAction: an action of the game and its follow-ups, as many as fit.
EmitGameAction(p) ==
  LET rules == FollowUps[pipe[p].game] IN
  /\ pipe[p].timer /\ Room > 0
  /\ pipe' = [pipe EXCEPT ![p] = Enqueue(pipe[p], "action")]
  /\ \E action \in DOMAIN rules :
       queued' = IF 1 + rules[action] <= Room THEN queued + 1 + rules[action] ELSE MaxSize
  /\ UNCHANGED <<profile, logouts>>

\* The visitor takes whatever is queued.
Visit ==
  /\ queued > 0
  /\ queued' = 0
  /\ UNCHANGED <<profile, logouts, pipe>>

-----------------------------------------------------------------------------
(* The session.                                                            *)

Login(u) ==
  /\ profile = None
  /\ profile' = u
  /\ UNCHANGED <<logouts, queued, pipe>>

Cards == {p \in Pipes : pipe[p].shown # "none"}

\* Mutant of BeginLogout: an error of close does not stop the logout.
BeginLogoutAnyway ==
  /\ profile # None /\ logouts < MaxLogouts
  /\ \E D \in SUBSET Cards :
       /\ Cost(D) <= Room
       /\ pipe' = [p \in Pipes |->
                     IF p \in Cards
                     THEN [IF p \in D THEN Close(pipe[p], 2) ELSE pipe[p] EXCEPT !.shown = "none"]
                     ELSE pipe[p]]
       /\ queued' = queued + Cost(D)
  /\ logouts' = logouts + 1
  /\ UNCHANGED profile

\* handleLogout up to the call of the backend.
BeginLogout ==
  /\ profile # None /\ logouts < MaxLogouts
  /\ Cost(Cards) <= Room
  /\ pipe' = [p \in Pipes |-> IF p \in Cards THEN [Close(pipe[p], 2) EXCEPT !.shown = "none"]
                              ELSE pipe[p]]
  /\ queued' = queued + Cost(Cards)
  /\ logouts' = logouts + 1
  /\ UNCHANGED profile

\* handleLogout that throws at the first game it cannot close.
FailLogout ==
  /\ profile # None
  /\ \E D \in SUBSET Cards : \E p \in Cards \ D :
       LET room == Room - Cost(D) IN
       /\ 0 <= room /\ room < Cost({p})
       /\ pipe' = [q \in Pipes |-> IF q \in D THEN Close(pipe[q], 2)
                                   ELSE IF q = p THEN Close(pipe[q], room) ELSE pipe[q]]
  /\ queued' = MaxSize
  /\ UNCHANGED <<profile, logouts>>

\* The answer, or the error, of POST /oauth/logout; the session is cleared
\* whoever is signed in by now.
FinishLogout ==
  /\ logouts > 0
  /\ logouts' = logouts - 1
  /\ profile' = None
  /\ UNCHANGED <<queued, pipe>>

Next ==
  \/ \E p \in Pipes :
       \/ \E game \in Games : OpenGame(p, game)
       \/ StartMatch(p) \/ EndMatch(p) \/ SetRate(p) \/ CloseGame(p)
       \/ EmitGameAction(p)
  \/ Visit
  \/ \E u \in Users : Login(u)
  \/ BeginLogout \/ FailLogout \/ FinishLogout

Spec == Init /\ [][Next]_vars

-----------------------------------------------------------------------------
(* Correctness.                                                            *)

\* The events of a game that entered the queue make sense: opened, then matches
\* that start, act and end, then closed, and nothing after that, although any
\* handler may stop at a full queue, and be tried again, in any state it left.
WellFormedGames == \A p \in Pipes : pipe[p].phase # "malformed"

\* All events of a game are tagged with the profile that opened it: signing out
\* closes the games first and is called off when it cannot.  Not so for a game
\* opened while a logout waits for the backend.
GameKeepsUser ==
  \A p \in Pipes : ~pipe[p].late => pipe[p].users \subseteq {pipe[p].opener}

-----------------------------------------------------------------------------
(* What makes the invariants inductive.                                    *)

PhaseOf(state) ==
  CASE state = "idle" -> "open" [] state = "streaming" -> "match" [] OTHER -> state

IsOpen(c) == c.state \in {"idle", "streaming"}

GameOK(c) ==
  /\ c.phase = PhaseOf(c.state)
  /\ c.timer => c.state = "streaming"
  /\ IsOpen(c) => c.shown # "none" /\ c.opener # None /\ c.game # None
  /\ IsOpen(c) /\ ~c.late => logouts = 0 /\ profile = c.opener
  /\ ~c.late => c.users \subseteq {c.opener}

IInv == TypeOK /\ \A p \in Pipes : GameOK(pipe[p])
=============================================================================
