----------------------------- MODULE DnsServer -----------------------------
(***************************************************************************)
(* What the access point's DNS server makes of one packet:                 *)
(* dns_server_process of src/wifi/access_point/dnsserver/dnsserver.c.  It  *)
(* walks over the labels of the first name, and writes its answer behind   *)
(* the question, into the 300 bytes it read the query into.                *)
(*                                                                         *)
(* A query is a record: its length, the three header fields that are       *)
(* looked at, and the length byte of each label; the letters are left out. *)
(* A name that the packet cuts short ends with the packet.                 *)
(***************************************************************************)
EXTENDS Naturals, Sequences, FiniteSetsExt

MAX_DNS_MSG_SIZE == 300
HEADER == 12
ANSWER == 16      \* pointer, type, class, time to live, length, address
QTYPE  == 4       \* QTYPE and QCLASS

Least(a, b) == IF a =< b THEN a ELSE b

(* What pbuf_copy_partial leaves of a query for the question.              *)
Given(query) == Least(query.len, MAX_DNS_MSG_SIZE) - HEADER

(* question_ptr - question_ptr_start after so many labels.                 *)
After(query) ==
  LET at[i \in 0..Len(query.labels)] ==
        IF i = 0 THEN 0 ELSE at[i - 1] + 1 + query.labels[i]
  IN at

(* The labels the loop reads: up to the empty one, or to the packet's end. *)
Walked(query) ==
  Min({i \in 0..Len(query.labels) :
         \/ i = Len(query.labels)
         \/ After(query)[i] >= Given(query)
         \/ i > 0 /\ query.labels[i] = 0})

NameLength(query) == After(query)[Walked(query)]

(* mutant: only the labels are bounded, not the name *)
Refused_ByLabel(query) ==
  \/ query.len < HEADER
  \/ query.qr # 0 \/ query.opcode # 0 \/ query.questions < 1
  \/ \E i \in 1..Walked(query) : query.labels[i] > 63

(* goto ignore_request *)
Refused(query) ==
  \/ query.len < HEADER
  \/ query.qr # 0 \/ query.opcode # 0 \/ query.questions < 1
  \/ \E i \in 1..Walked(query) : query.labels[i] > 63
  \/ NameLength(query) > 255

(* The reply ends with the answer, whatever the query had behind its first *)
(* question.                                                               *)
ReplyLength(query) == HEADER + NameLength(query) + QTYPE + ANSWER
=============================================================================
