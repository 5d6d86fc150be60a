----------------------------- MODULE MCLinuxCnc -----------------------------
EXTENDS LinuxCnc

(* One axis, which is the cached one: standing, or moving at one of two     *)
(* speeds, so that a JogVel() may start it, change its speed or stop it.   *)
MCSpeeds == {0, 1, 2}
=============================================================================
