----------------------------- MODULE GameRules -----------------------------
(***************************************************************************)
(* The rules of the mock games: the actions each game can come up with,    *)
(* and how many follow-ups each of them brings.                            *)
(*                                                                         *)
(* Simplifications:                                                        *)
(*  - The metadata of actions and follow-ups is left out, and the number   *)
(*    of players, which only metadata uses.                                *)
(*  - The weights are all positive, so that any action may be drawn; how   *)
(*    often it is left out.                                                *)
(***************************************************************************)
LeagueOfLegends ==
  [player_killed |-> 2, item_purchased |-> 0, turret_destroyed |-> 1, dragon_slain |-> 0]

Valorant == [player_killed |-> 1, ability_used |-> 0, spike_planted |-> 0, round_ended |-> 0]

TFT == [unit_purchased |-> 0, item_equipped |-> 0, round_result |-> 0, player_eliminated |-> 0]

Fortnite == [player_killed |-> 2, structure_built |-> 0, storm_moved |-> 0]

CS2 == [player_killed |-> 1, bomb_planted |-> 0, grenade_thrown |-> 0, round_ended |-> 0]

\* GAME_RULES, whose keys are the games App offers.
Games == {"League of Legends", "Valorant", "TFT", "Fortnite", "CS2"}

FollowUps == [game \in Games |->
  CASE game = "League of Legends" -> LeagueOfLegends
    [] game = "Valorant" -> Valorant
    [] game = "TFT" -> TFT
    [] game = "Fortnite" -> Fortnite
    [] game = "CS2" -> CS2]
=============================================================================
