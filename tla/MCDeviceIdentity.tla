-------------------------- MODULE MCDeviceIdentity --------------------------
(* Four keys: an enrolment and three rotations, of which any may be cut    *)
(* short.                                                                  *)
EXTENDS DeviceIdentity
=============================================================================
