---------------------------- MODULE MCNtpClient ----------------------------
(***************************************************************************)
(* Two alarms, so that an old one could stand beside a new one; two        *)
(* lookups and two datagrams, so that an old answer meets a new request.   *)
(***************************************************************************)
EXTENDS NtpClient

MCAlarmIds == {1, 2}
=============================================================================
