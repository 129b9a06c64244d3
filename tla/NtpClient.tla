----------------------------- MODULE NtpClient -----------------------------
(***************************************************************************)
(* The NTP client, src/wifi/ntp_client/picow_ntp_client.c: a loop that     *)
(* looks the server up and asks it for the time, lwIP's callbacks for the  *)
(* two answers, and an alarm for answers that never come.  The loop is cut *)
(* at its reads and writes of what the callbacks write too.                *)
(*                                                                         *)
(* The repository builds it twice.  In the background build, which is the  *)
(* one modelled, lwIP's callbacks interrupt the loop anywhere outside the  *)
(* lwIP lock; in the poll build they run only inside cyw43_arch_poll, so   *)
(* its behaviours are some of these (the callbacks wait for `rest', and    *)
(* `early' stays FALSE).  The alarm interrupts both; what it does amid a   *)
(* callback comes to the same as before or after it, so a callback and a   *)
(* whole ntp_result are one step.                                          *)
(***************************************************************************)
EXTENDS Integers, FiniteSets

CONSTANTS
  AlarmIds,     \* alarms of the pool, positive
  MaxLookups,   \* DNS requests lwIP holds (DNS_MAX_REQUESTS)
  MaxReplies    \* BOUND: NTP datagrams on their way

ASSUME NtpAssumption ==
  /\ AlarmIds \subseteq Nat \ {0} /\ IsFiniteSet(AlarmIds)
  /\ MaxLookups \in Nat \ {0} /\ MaxReplies \in Nat \ {0}

VARIABLES
  place, err,              \* the loop: its next step, what dns_gethostbyname said
  newAlarm,                \* the loop: what add_alarm_in_ms returned last
  ntp_server_address,      \* "any" until a lookup has given one
  dns_request_sent, ntp_resend_alarm,
  due,                     \* ntp_test_time has passed
  alarms,                  \* alarms that have been set
  lookups,                 \* lookups lwIP will call back for
  replies,                 \* NTP datagrams on their way to this client
  early                    \* history: this request was ended before the loop marked it as sent

loop    == <<place, err, newAlarm>>
network == <<lookups, replies>>
ntpVars == <<loop, ntp_server_address, dns_request_sent, ntp_resend_alarm, due, alarms, network, early>>

Places == {"time", "sent", "arm", "keep", "lookup", "mark", "branch", "rest"}

NtpTypeOK ==
  /\ place \in Places /\ err \in {"ok", "inprogress", "failed"}
  /\ newAlarm \in AlarmIds \cup {0} /\ ntp_resend_alarm \in AlarmIds \cup {0}
  /\ ntp_server_address \in {"any", "server"}
  /\ dns_request_sent \in BOOLEAN /\ due \in BOOLEAN
  /\ alarms \subseteq AlarmIds
  /\ lookups \in 0..MaxLookups /\ replies \in 0..MaxReplies /\ early \in BOOLEAN

NtpInit ==
  /\ place = "time" /\ err = "ok" /\ newAlarm = 0
  /\ ntp_server_address = "any"
  /\ dns_request_sent = FALSE /\ ntp_resend_alarm = 0
  /\ due = TRUE /\ alarms = {}
  /\ lookups = 0 /\ replies = 0 /\ early = FALSE

-----------------------------------------------------------------------------
(* mutant: the alarm is forgotten, not cancelled *)
ntp_result_NoCancel(pending) ==
  /\ alarms' = pending
  /\ ntp_resend_alarm' = 0
  /\ due' = FALSE /\ dns_request_sent' = FALSE

(* mutant: the request still counts as sent *)
ntp_result_KeepsSent(pending) ==
  /\ alarms' = pending \ {ntp_resend_alarm}
  /\ ntp_resend_alarm' = 0
  /\ due' = FALSE /\ dns_request_sent' = dns_request_sent

(* The end of a request, whatever came of it; pending are the alarms that  *)
(* have not fired.                                                         *)
ntp_result(pending) ==
  /\ alarms' = pending \ {ntp_resend_alarm}
  /\ ntp_resend_alarm' = 0
  /\ due' = FALSE /\ dns_request_sent' = FALSE

Least(a, b) == IF a =< b THEN a ELSE b

(* A datagram to the server: its answer is on its way, or lost (Lose).     *)
ntp_request(from) == replies' = Least(from + 1, MaxReplies)

-----------------------------------------------------------------------------
(* The loop of run_ntp_test.                                               *)
ReadTime ==
  /\ place = "time" /\ place' = IF due THEN "sent" ELSE "rest"
  /\ UNCHANGED <<err, newAlarm, ntp_server_address, dns_request_sent, ntp_resend_alarm, due, alarms, network, early>>

ReadSent ==
  /\ place = "sent" /\ place' = IF dns_request_sent THEN "rest" ELSE "arm"
  /\ UNCHANGED <<err, newAlarm, ntp_server_address, dns_request_sent, ntp_resend_alarm, due, alarms, network, early>>

(* The pool of 16 is never used up: see AlarmOwned.                        *)
AddAlarm ==
  /\ place = "arm" /\ place' = "keep"
  /\ \E id \in AlarmIds \ alarms : newAlarm' = id /\ alarms' = alarms \cup {id}
  /\ early' = FALSE
  /\ UNCHANGED <<err, ntp_server_address, dns_request_sent, ntp_resend_alarm, due, network>>

KeepAlarm ==
  /\ place = "keep" /\ place' = "lookup"
  /\ ntp_resend_alarm' = newAlarm
  /\ UNCHANGED <<err, newAlarm, ntp_server_address, dns_request_sent, due, alarms, network, early>>

(* dns_gethostbyname: the address is cached, or asked for, or lwIP has no  *)
(* room for one more request.                                              *)
Lookup ==
  /\ place = "lookup" /\ place' = "mark"
  /\ \/ ntp_server_address = "server" /\ err' = "ok" /\ UNCHANGED lookups
     \/ lookups < MaxLookups /\ err' = "inprogress" /\ lookups' = lookups + 1
     \/ lookups = MaxLookups /\ err' = "failed" /\ UNCHANGED lookups
  /\ UNCHANGED <<newAlarm, ntp_server_address, dns_request_sent, ntp_resend_alarm, due, alarms, replies, early>>

Mark ==
  /\ place = "mark" /\ place' = "branch"
  /\ dns_request_sent' = TRUE
  /\ UNCHANGED <<err, newAlarm, ntp_server_address, ntp_resend_alarm, due, alarms, network, early>>

Branch ==
  /\ place = "branch" /\ place' = "rest"
  /\ \/ /\ err = "ok" /\ ntp_request(replies)
        /\ UNCHANGED <<dns_request_sent, ntp_resend_alarm, due, alarms>>
     \/ /\ err = "inprogress"
        /\ UNCHANGED <<dns_request_sent, ntp_resend_alarm, due, alarms, replies>>
     \/ /\ err = "failed" /\ ntp_result(alarms)
        /\ UNCHANGED replies
  /\ UNCHANGED <<err, newAlarm, ntp_server_address, lookups, early>>

(* cyw43_arch_poll and the wait, or the sleep.                             *)
Rest ==
  /\ place = "rest" /\ place' = "time"
  /\ UNCHANGED <<err, newAlarm, ntp_server_address, dns_request_sent, ntp_resend_alarm, due, alarms, network, early>>

run_ntp_test == ReadTime \/ ReadSent \/ AddAlarm \/ KeepAlarm \/ Lookup \/ Mark \/ Branch \/ Rest

-----------------------------------------------------------------------------
(* The callbacks.                                                          *)
(* A callback that ends the request does so early when the loop has kept   *)
(* the alarm and not marked the request yet.                               *)
EndsEarly == early' = (early \/ place \in {"lookup", "mark"})

Found ==
  /\ lookups > 0
  /\ lookups' = lookups - 1 /\ ntp_server_address' = "server"
  /\ ntp_request(replies)
  /\ UNCHANGED <<loop, dns_request_sent, ntp_resend_alarm, due, alarms, early>>

NotFound ==
  /\ lookups > 0
  /\ lookups' = lookups - 1
  /\ ntp_result(alarms) /\ EndsEarly
  /\ UNCHANGED <<loop, ntp_server_address, replies>>

(* Right or invalid, early or late, a datagram ends the request.           *)
ntp_recv ==
  /\ replies > 0
  /\ replies' = replies - 1
  /\ ntp_result(alarms) /\ EndsEarly
  /\ UNCHANGED <<loop, ntp_server_address, lookups>>

ntp_dns_found == Found \/ NotFound

(* The alarm of 10 s, and the 30 s of ntp_test_time below.  The statements *)
(* from arm on take far less: neither passes among them.                   *)
Waiting == place \in {"time", "sent", "rest"}

(* mutant: the alarm only says so *)
ntp_failed_handler_LogOnly(id) ==
  /\ id \in alarms
  /\ id = newAlarm => Waiting
  /\ alarms' = alarms \ {id}
  /\ UNCHANGED <<loop, ntp_server_address, network, dns_request_sent, ntp_resend_alarm, due, early>>

ntp_failed_handler(id) ==
  /\ id \in alarms
  /\ id = newAlarm => Waiting
  /\ ntp_result(alarms \ {id})
  /\ UNCHANGED <<loop, ntp_server_address, network, early>>

-----------------------------------------------------------------------------
(* The environment.                                                        *)
Lose ==
  /\ replies > 0 /\ replies' = replies - 1
  /\ UNCHANGED <<loop, ntp_server_address, dns_request_sent, ntp_resend_alarm, due, alarms, lookups, early>>

Elapse ==
  /\ Waiting /\ ~due /\ due' = TRUE
  /\ UNCHANGED <<loop, ntp_server_address, dns_request_sent, ntp_resend_alarm, alarms, network, early>>

NtpNext ==
  \/ run_ntp_test \/ ntp_dns_found \/ ntp_recv \/ Lose \/ Elapse
  \/ \E id \in AlarmIds : ntp_failed_handler(id)

(* The loop runs, time passes and alarms fire; the network owes nothing,   *)
(* not even an answer.                                                     *)
NtpFairness ==
  /\ WF_ntpVars(run_ntp_test) /\ WF_ntpVars(Elapse)
  /\ \A id \in AlarmIds : WF_ntpVars(ntp_failed_handler(id))

NtpSpec == NtpInit /\ [][NtpNext]_ntpVars /\ NtpFairness

-----------------------------------------------------------------------------
(* No alarm outlives its request: between requests none is set, and while  *)
(* one is running no other than its own, so that no old alarm can end a    *)
(* later request, however late the answers come (picow_ntp_client.c 40-45, *)
(* 134).                                                                   *)
AlarmOwned ==
  /\ place # "keep" => alarms \subseteq {ntp_resend_alarm}
  /\ Waiting /\ ~dns_request_sent => alarms = {}

(* "Set alarm in case udp requests are lost" (picow_ntp_client.c 133): the *)
(* loop waits for an answer without the alarm only when a callback ended   *)
(* the request between lines 134 and 144, which the poll build rules out.  *)
RequestGuarded == Waiting /\ dns_request_sent /\ alarms = {} => early

(* "Runs ntp test forever" (picow_ntp_client.c 126): the server is asked   *)
(* again and again, whatever the network loses, unless a request was ended *)
(* before line 144 marked it as sent: only an answer ends that one.        *)
AsksForever == []<>(place = "lookup" \/ early)
=============================================================================
