------------------------------- MODULE MCTwitch -------------------------------
(* Small instances of Twitch. *)
EXTENDS Twitch

AllHops == {"GetChannelTeams", "GetFriendStatus", "UpdatePresenceStatus", "UpdateChannel"}
=============================================================================
