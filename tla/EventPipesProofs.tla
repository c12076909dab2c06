-------------------------- MODULE EventPipesProofs --------------------------
(***************************************************************************)
(* Proofs about EventPipes.  The invariant is one of a single game         *)
(* (GameOK), so each action is shown to keep it of the games it touches    *)
(* (Touched), and the session steps of all.                                *)
(***************************************************************************)
EXTENDS EventPipes, TLAPS, FiniteSetTheorems

\* What the queue counts are sums of, and what they bound, are naturals.
LEMMA Sizes ==
  ASSUME TypeOK
  PROVE  Room \in 0..MaxSize /\ Room + queued = MaxSize
BY SizesAssumption DEF TypeOK, Room

LEMMA FollowUpsAreNat ==
  ASSUME NEW game \in Games, NEW action \in DOMAIN FollowUps[game]
  PROVE  FollowUps[game][action] \in Nat
<1>1. CASE game = "League of Legends"
  <2>1. FollowUps[game] = LeagueOfLegends
    BY <1>1 DEF FollowUps, Games
  <2>2. QED
    BY <2>1 DEF LeagueOfLegends
<1>2. CASE game = "Valorant"
  <2>1. FollowUps[game] = Valorant
    BY <1>2 DEF FollowUps, Games
  <2>2. QED
    BY <2>1 DEF Valorant
<1>3. CASE game = "TFT"
  <2>1. FollowUps[game] = TFT
    BY <1>3 DEF FollowUps, Games
  <2>2. QED
    BY <2>1 DEF TFT
<1>4. CASE game = "Fortnite"
  <2>1. FollowUps[game] = Fortnite
    BY <1>4 DEF FollowUps, Games
  <2>2. QED
    BY <2>1 DEF Fortnite
<1>5. CASE game = "CS2"
  <2>1. FollowUps[game] = CS2
    BY <1>5 DEF FollowUps, Games
  <2>2. QED
    BY <2>1 DEF CS2
<1>6. QED
  BY <1>1, <1>2, <1>3, <1>4, <1>5 DEF Games

LEMMA CostIsNat ==
  ASSUME NEW D \in SUBSET Pipes
  PROVE  Cost(D) \in Nat
<1> DEFINE E == {p \in D : pipe[p].state \in {"idle", "streaming"}}
           F == {p \in D : pipe[p].state = "streaming"}
<1>1. IsFiniteSet(E) /\ IsFiniteSet(F)
  BY PipesAssumption, FS_Subset
<1>2. Cardinality(E) \in Nat /\ Cardinality(F) \in Nat
  BY <1>1, FS_CardinalityType
<1>3. QED
  BY <1>2 DEF Cost

\* A step that leaves one game in another good state and the session alone.
LEMMA Touched ==
  ASSUME IInv, NEW p \in Pipes, NEW c \in Pipe, GameOK(c),
         pipe' = [pipe EXCEPT ![p] = c],
         queued' \in 0..MaxSize, UNCHANGED <<profile, logouts>>
  PROVE  IInv'
<1>1. TypeOK'
  BY DEF IInv, TypeOK
<1>2. ASSUME NEW q \in Pipes PROVE GameOK(pipe[q])'
  <2>1. pipe'[q] = IF q = p THEN c ELSE pipe[q]
    BY DEF IInv, TypeOK
  <2>2. GameOK(pipe'[q])
    BY <2>1 DEF IInv
  <2>3. QED
    BY <2>2 DEF GameOK
<1>3. QED
  BY <1>1, <1>2 DEF IInv

\* What endMatch and close leave, whatever room they find.
LEMMA EndedOK ==
  ASSUME IInv, NEW c \in Pipe, GameOK(c), c.state = "streaming"
  PROVE  Ended(c) \in Pipe /\ GameOK(Ended(c)) /\ Ended(c).state = "idle"
BY DEF Ended, Enqueue, Accept, Pipe, Phases, GameOK, PhaseOf, IsOpen, IInv, TypeOK

LEMMA ClosedOK ==
  ASSUME IInv, NEW c \in Pipe, GameOK(c), c.state = "idle"
  PROVE  Closed(c) \in Pipe /\ GameOK(Closed(c)) /\ Closed(c).state = "closed"
BY DEF Closed, Enqueue, Accept, Pipe, Phases, GameOK, PhaseOf, IsOpen, IInv, TypeOK

LEMMA CloseOK ==
  ASSUME IInv, NEW c \in Pipe, GameOK(c), NEW room \in Int
  PROVE  Close(c, room) \in Pipe /\ GameOK(Close(c, room))
<1>1. CASE c.state \in {"none", "closed"}
  BY <1>1 DEF Close
<1>2. CASE c.state = "idle"
  BY <1>2, ClosedOK DEF Close
<1>3. CASE c.state = "streaming"
  <2>1. Ended(c) \in Pipe /\ GameOK(Ended(c)) /\ Ended(c).state = "idle"
    BY <1>3, EndedOK
  <2>2. Closed(Ended(c)) \in Pipe /\ GameOK(Closed(Ended(c)))
    BY <2>1, ClosedOK
  <2>3. [c EXCEPT !.timer = FALSE] \in Pipe /\ GameOK([c EXCEPT !.timer = FALSE])
    BY DEF Pipe, GameOK, IsOpen
  <2>4. QED
    BY <1>3, <2>1, <2>2, <2>3 DEF Close
<1>4. QED
  BY <1>1, <1>2, <1>3 DEF Pipe

\* close() with room for both events closes the game.
LEMMA CloseCloses ==
  ASSUME IInv, NEW c \in Pipe, GameOK(c)
  PROVE  ~IsOpen(Close(c, 2))
<1>1. CASE c.state \in {"none", "closed"}
  BY <1>1 DEF Close, IsOpen
<1>2. CASE c.state = "idle"
  BY <1>2, ClosedOK DEF Close, IsOpen
<1>3. CASE c.state = "streaming"
  BY <1>3, EndedOK, ClosedOK DEF Close, IsOpen
<1>4. QED
  BY <1>1, <1>2, <1>3 DEF Pipe

\* Showing the state of an open or closed game on its card.
LEMMA ShownOK ==
  ASSUME NEW c \in Pipe, GameOK([c EXCEPT !.shown = c.state]) \/ GameOK(c)
  PROVE  /\ [c EXCEPT !.shown = c.state] \in Pipe
         /\ GameOK([c EXCEPT !.shown = c.state])
BY DEF Pipe, GameOK, IsOpen

LEMMA HiddenOK ==
  ASSUME NEW c \in Pipe, GameOK(c), ~IsOpen(c)
  PROVE  [c EXCEPT !.shown = "none"] \in Pipe /\ GameOK([c EXCEPT !.shown = "none"])
BY DEF Pipe, GameOK, IsOpen

LEMMA ShowKeeps ==
  ASSUME IInv, NEW p \in Pipes, NEW c \in Pipe, GameOK([c EXCEPT !.shown = c.state]) \/ GameOK(c),
         Show(p, c), queued' \in 0..MaxSize, UNCHANGED <<profile, logouts>>
  PROVE  IInv'
BY ShownOK, Touched DEF Show

-----------------------------------------------------------------------------
(* One lemma per action.                                                   *)

LEMMA OpenGameKeeps ==
  ASSUME IInv, NEW p \in Pipes, NEW game \in Games, OpenGame(p, game)
  PROVE  IInv'
<1> DEFINE late == logouts > 0
           n == [NoPipe EXCEPT !.state = "idle", !.game = game,
                              !.opener = profile, !.late = late]
           c == Enqueue(n, "game_opened")
<1>1. queued' \in 0..MaxSize
  BY Sizes DEF OpenGame, IInv, TypeOK
<1>2. late \in BOOLEAN /\ profile \in Users \cup {None} /\ profile # None
      /\ (~late => logouts = 0)
  BY SizesAssumption DEF OpenGame, IInv, TypeOK
<1> HIDE DEF late
<1>3. /\ n \in Pipe
      /\ n.state = "idle" /\ ~n.timer /\ n.phase = "none"
      /\ n.game = game /\ n.opener = profile /\ n.late = late /\ n.users = {}
  BY <1>2 DEF NoPipe, Pipe, Phases
<1> HIDE DEF n
<1>4. /\ c \in Pipe
      /\ c.state = "idle" /\ ~c.timer /\ c.phase = "open"
      /\ c.game = game /\ c.opener = profile /\ c.late = late /\ c.users = {profile}
  BY <1>2, <1>3 DEF Enqueue, Accept, Pipe, Phases
<1> HIDE DEF c
<1>5. GameOK([c EXCEPT !.shown = c.state])
  BY <1>2, <1>4, NoneAssumption DEF GameOK, PhaseOf, IsOpen, Pipe
<1>6. Show(p, c)
  BY DEF OpenGame, c, n, late
<1>7. QED
  BY <1>1, <1>4, <1>5, <1>6, ShowKeeps DEF OpenGame

LEMMA StartMatchKeeps ==
  ASSUME IInv, NEW p \in Pipes, StartMatch(p)
  PROVE  IInv'
<1> DEFINE c == pipe[p]
           d == [Enqueue(c, "match_started") EXCEPT !.state = "streaming", !.timer = TRUE]
<1>1. c \in Pipe /\ GameOK(c) /\ queued \in 0..MaxSize
  BY DEF IInv, TypeOK
<1>2. CASE c.state = "idle" /\ Room > 0
  <2>1. d \in Pipe /\ GameOK(d)
    BY <1>1, <1>2 DEF Enqueue, Accept, Pipe, Phases, GameOK, PhaseOf, IsOpen, IInv, TypeOK
  <2>2. Show(p, d) /\ queued' \in 0..MaxSize
    BY <1>2, Sizes DEF StartMatch, IInv, TypeOK
  <2>3. QED
    BY <2>1, <2>2, ShowKeeps DEF StartMatch
<1>3. CASE c.state # "idle"
  BY <1>1, <1>3, ShowKeeps DEF StartMatch
<1>4. QED
  BY <1>2, <1>3 DEF StartMatch

LEMMA EndMatchKeeps ==
  ASSUME IInv, NEW p \in Pipes, EndMatch(p)
  PROVE  IInv'
<1> DEFINE c == pipe[p]
<1>1. c \in Pipe /\ GameOK(c) /\ queued \in 0..MaxSize
  BY DEF IInv, TypeOK
<1>2. CASE c.state = "streaming" /\ Room > 0
  <2>1. Ended(c) \in Pipe /\ GameOK(Ended(c))
    BY <1>1, <1>2, EndedOK
  <2>2. Show(p, Ended(c)) /\ queued' \in 0..MaxSize
    BY <1>2, Sizes DEF EndMatch, IInv, TypeOK
  <2>3. QED
    BY <2>1, <2>2, ShowKeeps DEF EndMatch
<1>3. CASE c.state = "streaming" /\ Room = 0
  <2>1. [c EXCEPT !.timer = FALSE] \in Pipe /\ GameOK([c EXCEPT !.timer = FALSE])
    BY <1>1 DEF Pipe, GameOK, IsOpen
  <2>2. pipe' = [pipe EXCEPT ![p] = [c EXCEPT !.timer = FALSE]]
    BY <1>3 DEF EndMatch
  <2>3. queued' = queued /\ UNCHANGED <<profile, logouts>>
    BY <1>3 DEF EndMatch
  <2>4. QED
    BY <1>1, <2>1, <2>2, <2>3, Touched
<1>4. CASE c.state # "streaming"
  BY <1>1, <1>4, ShowKeeps DEF EndMatch
<1>5. QED
  BY <1>2, <1>3, <1>4, Sizes DEF EndMatch, IInv

LEMMA SetRateKeeps ==
  ASSUME IInv, NEW p \in Pipes, SetRate(p)
  PROVE  IInv'
<1> DEFINE c == pipe[p]
           d == [c EXCEPT !.timer = c.timer \/ c.state = "streaming"]
<1>1. c \in Pipe /\ GameOK(c) /\ queued \in 0..MaxSize
  BY DEF IInv, TypeOK
<1>2. d \in Pipe /\ GameOK(d)
  BY <1>1 DEF Pipe, GameOK, IsOpen
<1>3. QED
  BY <1>1, <1>2, ShowKeeps DEF SetRate

LEMMA CloseGameKeeps ==
  ASSUME IInv, NEW p \in Pipes, CloseGame(p)
  PROVE  IInv'
<1> DEFINE c == pipe[p]
<1>1. c \in Pipe /\ GameOK(c) /\ Room \in Int
  BY Sizes DEF IInv, TypeOK
<1>2. Cost({p}) \in Nat /\ queued' \in 0..MaxSize
  BY CostIsNat, Sizes DEF CloseGame, IInv, TypeOK
<1>3. Close(c, Room) \in Pipe /\ GameOK(Close(c, Room))
  BY <1>1, CloseOK
<1>4. ~IsOpen(Close(c, Room))
  <2>1. CASE ~IsOpen(c)
    BY <1>1, <2>1 DEF Close, IsOpen, Pipe
  <2>2. CASE c.state = "idle"
    <3>1. {q \in {p} : pipe[q].state \in {"idle", "streaming"}} = {p}
          /\ {q \in {p} : pipe[q].state = "streaming"} = {}
      BY <2>2
    <3>2. Cost({p}) = 1
      BY <3>1, FS_Singleton, FS_EmptySet DEF Cost
    <3>3. QED
      BY <1>1, <2>2, <3>2, ClosedOK DEF CloseGame, Close, IsOpen
  <2>3. CASE c.state = "streaming"
    <3>1. {q \in {p} : pipe[q].state \in {"idle", "streaming"}} = {p}
          /\ {q \in {p} : pipe[q].state = "streaming"} = {p}
      BY <2>3
    <3>2. Cost({p}) = 2
      BY <3>1, FS_Singleton DEF Cost
    <3>3. QED
      BY <1>1, <2>3, <3>2, EndedOK, ClosedOK DEF CloseGame, Close, IsOpen
  <2>4. QED
    BY <2>1, <2>2, <2>3 DEF IsOpen
<1>5. QED
  BY <1>2, <1>3, <1>4, HiddenOK, Touched DEF CloseGame

LEMMA EmitGameActionKeeps ==
  ASSUME IInv, NEW p \in Pipes, EmitGameAction(p)
  PROVE  IInv'
<1> DEFINE c == pipe[p]
<1>1. c \in Pipe /\ GameOK(c)
  BY DEF IInv, TypeOK
<1>2. Enqueue(c, "action") \in Pipe /\ GameOK(Enqueue(c, "action"))
  BY <1>1 DEF EmitGameAction, Enqueue, Accept, Pipe, Phases, GameOK, PhaseOf, IsOpen, IInv, TypeOK
<1>3. queued' \in 0..MaxSize
  <2>1. c.game \in Games
    BY <1>1 DEF EmitGameAction, GameOK, IsOpen, Pipe
  <2>2. PICK action \in DOMAIN FollowUps[c.game] :
          queued' = IF 1 + FollowUps[c.game][action] <= Room
                    THEN queued + 1 + FollowUps[c.game][action] ELSE MaxSize
    BY DEF EmitGameAction
  <2>3. FollowUps[c.game][action] \in Nat
    BY <2>1, FollowUpsAreNat
  <2>4. QED
    BY <2>2, <2>3, Sizes, SizesAssumption DEF IInv, TypeOK
<1>4. QED
  BY <1>2, <1>3, Touched DEF EmitGameAction

\* A logout that goes on leaves no game open.
LEMMA BeginLogoutKeeps ==
  ASSUME IInv, BeginLogout
  PROVE  IInv'
<1>1. Cost(Cards) \in Nat
  BY CostIsNat DEF Cards
<1>2. ASSUME NEW p \in Pipes
      PROVE  pipe'[p] \in Pipe /\ GameOK(pipe'[p]) /\ ~IsOpen(pipe'[p])
  <2>1. pipe[p] \in Pipe /\ GameOK(pipe[p])
    BY DEF IInv, TypeOK
  <2>2. CASE p \in Cards
    <3>1. Close(pipe[p], 2) \in Pipe /\ GameOK(Close(pipe[p], 2)) /\ ~IsOpen(Close(pipe[p], 2))
      BY <2>1, CloseOK, CloseCloses
    <3>2. pipe'[p] = [Close(pipe[p], 2) EXCEPT !.shown = "none"]
      BY <2>2 DEF BeginLogout
    <3>3. pipe'[p].state = Close(pipe[p], 2).state
      BY <3>1, <3>2 DEF Pipe
    <3>4. QED
      BY <3>1, <3>2, <3>3, HiddenOK DEF IsOpen
  <2>3. CASE p \notin Cards
    <3>1. pipe'[p] = pipe[p] /\ pipe[p].shown = "none"
      BY <2>3 DEF BeginLogout, Cards
    <3>2. QED
      BY <2>1, <3>1 DEF GameOK
  <2>4. QED
    BY <2>2, <2>3
<1>3. TypeOK'
  BY <1>1, <1>2, Sizes, SizesAssumption DEF BeginLogout, IInv, TypeOK
<1>4. ASSUME NEW p \in Pipes PROVE GameOK(pipe[p])'
  BY <1>2 DEF GameOK
<1>5. QED
  BY <1>3, <1>4 DEF IInv

LEMMA FailLogoutKeeps ==
  ASSUME IInv, FailLogout
  PROVE  IInv'
<1>1. PICK D \in SUBSET Cards : \E p \in Cards \ D :
        pipe' = [q \in Pipes |-> IF q \in D THEN Close(pipe[q], 2)
                                 ELSE IF q = p THEN Close(pipe[q], Room - Cost(D)) ELSE pipe[q]]
  BY DEF FailLogout
<1>0. PICK p \in Cards \ D :
        pipe' = [q \in Pipes |-> IF q \in D THEN Close(pipe[q], 2)
                                 ELSE IF q = p THEN Close(pipe[q], Room - Cost(D)) ELSE pipe[q]]
  BY <1>1
<1>2. Room - Cost(D) \in Int
  BY Sizes, CostIsNat DEF Cards, IInv
<1>3. ASSUME NEW q \in Pipes PROVE pipe'[q] \in Pipe /\ GameOK(pipe'[q])
  <2>1. pipe[q] \in Pipe /\ GameOK(pipe[q])
    BY DEF IInv, TypeOK
  <2>2. QED
    BY <1>0, <1>2, <2>1, CloseOK
<1>4. TypeOK'
  BY <1>0, <1>3, SizesAssumption DEF FailLogout, IInv, TypeOK
<1>5. ASSUME NEW q \in Pipes PROVE GameOK(pipe[q])'
  BY <1>3 DEF GameOK, FailLogout
<1>6. QED
  BY <1>4, <1>5 DEF IInv

\* The session changes hands only when every game but the late ones is closed.
LEMMA SessionKeeps ==
  ASSUME IInv, (\E u \in Users : Login(u)) \/ FinishLogout
  PROVE  IInv'
<1>1. TypeOK'
  BY SizesAssumption DEF Login, FinishLogout, IInv, TypeOK
<1>2. ASSUME NEW p \in Pipes PROVE GameOK(pipe[p])'
  <2>1. GameOK(pipe[p]) /\ pipe[p] \in Pipe /\ pipe' = pipe
    BY DEF Login, FinishLogout, IInv, TypeOK
  <2>2. ~(IsOpen(pipe[p]) /\ ~pipe[p].late)
    BY <2>1, SizesAssumption DEF GameOK, Login, FinishLogout, IInv, TypeOK
  <2>3. QED
    BY <2>1, <2>2 DEF GameOK
<1>3. QED
  BY <1>1, <1>2 DEF IInv

-----------------------------------------------------------------------------

LEMMA InitOK == Init => IInv
BY SizesAssumption
DEF Init, IInv, TypeOK, NoPipe, Pipe, Phases, GameOK, PhaseOf, IsOpen

LEMMA StepKeeps == IInv /\ [Next]_vars => IInv'
<1> SUFFICES ASSUME IInv, [Next]_vars PROVE IInv'
  OBVIOUS
<1>1. CASE UNCHANGED vars
  BY <1>1 DEF vars, IInv, TypeOK, GameOK
<1>2. CASE Visit
  <2>1. TypeOK'
    BY <1>2, SizesAssumption DEF Visit, IInv, TypeOK
  <2>2. QED
    BY <1>2, <2>1 DEF Visit, IInv, GameOK
<1>3. ASSUME NEW p \in Pipes,
             (\E game \in Games : OpenGame(p, game)) \/ StartMatch(p) \/ EndMatch(p) \/ SetRate(p) \/ CloseGame(p)
               \/ EmitGameAction(p)
      PROVE  IInv'
  BY <1>3, OpenGameKeeps, StartMatchKeeps, EndMatchKeeps, SetRateKeeps, CloseGameKeeps,
     EmitGameActionKeeps
<1>4. CASE (\E u \in Users : Login(u)) \/ BeginLogout \/ FailLogout \/ FinishLogout
  BY <1>4, SessionKeeps, BeginLogoutKeeps, FailLogoutKeeps
<1>5. QED
  BY <1>1, <1>2, <1>3, <1>4 DEF Next

LEMMA Inductive == Spec => []IInv
BY InitOK, StepKeeps, PTL DEF Spec

\* Every reachable state of the event source is well typed; the queue never
\* holds more than its capacity.
THEOREM TypeCorrect == Spec => []TypeOK
<1>1. IInv => TypeOK
  BY DEF IInv
<1>2. QED
  BY <1>1, Inductive, PTL

\* The events of a game make sense, for any number of games and any capacity.
THEOREM GamesWellFormed == Spec => []WellFormedGames
<1>1. IInv => WellFormedGames
  <2> SUFFICES ASSUME IInv, NEW p \in Pipes PROVE pipe[p].phase # "malformed"
    BY DEF WellFormedGames
  <2>1. pipe[p].state \in {"none", "idle", "streaming", "closed"}
        /\ pipe[p].phase = PhaseOf(pipe[p].state)
    BY DEF IInv, TypeOK, Pipe, GameOK
  <2>2. QED
    BY <2>1 DEF PhaseOf
<1>2. QED
  BY <1>1, Inductive, PTL

\* The events of a game carry the profile that opened it, unless it was opened
\* while a logout was waiting.
THEOREM GamesKeepUser == Spec => []GameKeepsUser
<1>1. IInv => GameKeepsUser
  BY DEF IInv, GameOK, GameKeepsUser
<1>2. QED
  BY <1>1, Inductive, PTL

\* A game that runs on is the signed-in profile's and no logout is under way, so
\* after signing out none runs on but those opened while a logout was waiting.
THEOREM RunningGamesSignedIn ==
  Spec => [](\A p \in Pipes : IsOpen(pipe[p]) /\ ~pipe[p].late =>
               logouts = 0 /\ profile = pipe[p].opener /\ profile # None)
<1> DEFINE SignedIn == \A p \in Pipes : IsOpen(pipe[p]) /\ ~pipe[p].late =>
                         logouts = 0 /\ profile = pipe[p].opener /\ profile # None
<1>1. IInv => SignedIn
  BY DEF IInv, GameOK
<1> HIDE DEF SignedIn
<1>2. Spec => []SignedIn
  BY <1>1, Inductive, PTL
<1>3. QED
  BY <1>2 DEF SignedIn
=============================================================================
