----------------------------- MODULE MCSpiParser -----------------------------
(* Instances of SpiParser for TLC, with checksums small enough to collide.   *)
EXTENDS SpiParser

MCCrc64(sync, cmd, len, reserved) == (sync + cmd + len + reserved) % (BYTE_MAX + 1)
MCCrc32(s) == IF Len(s) = 0 THEN 0 ELSE (s[1] + 1) % (BYTE_MAX + 1)
=============================================================================
