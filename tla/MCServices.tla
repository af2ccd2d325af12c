----------------------------- MODULE MCServices -----------------------------
(* A small instance of the sessions, the map cache, the media and the rate *)
(* limit for TLC.  They share no variable, so each reaches in their        *)
(* composition what it reaches alone: one of them, chosen at the start,    *)
(* moves.                                                                  *)
EXTENDS Sessions, MapCache, Media, RateLimit, TLC

VARIABLE moving

ServicesInit ==
  /\ SessionsInit /\ MapCacheInit /\ MediaInit /\ RateLimitInit
  /\ moving \in {"sessions", "maps", "media", "limits"}
  /\ moving # "sessions" => account.state = "absent"
  /\ moving # "maps"     => owners = << >>
  /\ moving # "media"    => mode = "database"
  /\ moving # "limits"   => enabled

ServicesNext ==
  /\ \/ moving = "sessions" /\ SessionsNext
        /\ UNCHANGED <<mapVars, mediaVars, limitVars>>
     \/ moving = "maps" /\ MapCacheNext
        /\ UNCHANGED <<sessionsVars, mediaVars, limitVars>>
     \/ moving = "maps" /\ (\A c \in Call : call[c].pc = "end")
        /\ UNCHANGED <<sessionsVars, mapVars, mediaVars, limitVars>>
     \/ moving = "media" /\ MediaNext
        /\ UNCHANGED <<sessionsVars, mapVars, limitVars>>
     \/ moving = "limits" /\ RateLimitNext
        /\ UNCHANGED <<sessionsVars, mapVars, mediaVars>>
  /\ UNCHANGED moving

ServicesSpec ==
  ServicesInit
    /\ [][ServicesNext]_<<sessionsVars, mapVars, mediaVars, limitVars, moving>>

\* The invariants that ServicesProofs proves, each inductive and with the types of
\* its module.  What does not move is as it started.
ServicesInv ==
  /\ moving = "sessions" => SessionsInv
  /\ moving = "maps"     => MapCacheInv
  /\ moving = "media"    => MediaInv
  /\ moving = "limits"   => RateLimitInv

Alike == Permutations(Call)
=============================================================================
