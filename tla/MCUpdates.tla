------------------------------ MODULE MCUpdates -----------------------------
(* Instances of Updates for TLC.  The stable channel has a release, a newer    *)
(* one, and another payload with the number of the newer one.                  *)
EXTENDS Updates

Manifest(seq, digest, channel, release, package, expires) ==
    [seq |-> seq, digest |-> digest, channel |-> channel, release |-> release,
     package |-> package, expires |-> expires]

MCManifests ==
    {Manifest(1, 1, "stable", 1, "A", MaxClock),
     Manifest(2, 2, "stable", 2, "B", MaxClock + 1),
     Manifest(2, 3, "stable", 1, "A", MaxClock + 1)}

MCDelays == <<1, 1, 2, 2>>
=============================================================================
