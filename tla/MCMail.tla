------------------------------- MODULE MCMail -------------------------------
(* MailDelivery for TLC: all requests of up to two mails whose To list has   *)
(* up to three entries, and which have a username or an address in Cc.       *)
EXTENDS MailDelivery

CONSTANTS alice, bob, aliceAt, bobAt, carolAt, helpAt

\* Carol's address is the username of somebody else.
MCAddressOf == [u \in Usernames \cup {carolAt} |->
                  CASE u = alice -> aliceAt [] u = bob -> bobAt [] u = carolAt -> helpAt]

SeqsUpTo(S, n) == UNION {[1..m -> S] : m \in 0..n}
Mail(to, cc) == [l \in Lists |-> IF l = "to" THEN to ELSE IF l = "cc" THEN cc ELSE <<>>]

MCMails ==
       {Mail(to, <<>>) : to \in SeqsUpTo({alice, bob, carolAt}, 3)}
  \cup {Mail(<<carolAt>>, cc) : cc \in SeqsUpTo({alice, carolAt}, 2)}
MCBatches == {<<>>} \cup {<<m>> : m \in MCMails}
               \cup {<<m1, m2>> : m1, m2 \in {m \in MCMails : Len(m["to"]) < 3}}
=============================================================================
