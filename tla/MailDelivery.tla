---------------------------- MODULE MailDelivery ----------------------------
(***************************************************************************)
(* POST /v1/sendEmails: SendEmails takes the mails of a request in turn,   *)
(* has LookupEmailsForUsernames replace the usernames in their lists by    *)
(* addresses, and hands each to the mailer.  It answers "success" whatever *)
(* became of them.  A request shares nothing with others.                  *)
(***************************************************************************)
EXTENDS Integers, Sequences, FiniteSets

CONSTANTS
  Usernames,    \* entries of a list without "@"
  Addresses,    \* entries with "@"
  AddressOf,    \* the address of each user, by the username, which may have an "@"
  Unknown,      \* "", what a username that is not found is replaced by
  ToEmail,      \* TO_EMAIL
  UsersModule,  \* USERS_MODULE
  Batches       \* the mails of the requests that are sent

ASSUME NamesAssumption ==
  /\ Usernames \cap Addresses = {}
  /\ Usernames \subseteq DOMAIN AddressOf
  /\ DOMAIN AddressOf \subseteq Usernames \cup Addresses
  /\ AddressOf \in [DOMAIN AddressOf -> Addresses \cup {Unknown}]
  /\ Unknown \notin Usernames \cup Addresses /\ ToEmail \in Addresses
ASSUME ModuleAssumption == UsersModule \in {"ams", "keycloak", "mock", ""}

Lists == {"to", "cc", "bcc"}
Mails == [Lists -> Seq(Usernames \cup Addresses)]
ASSUME BatchesAssumption == \A b \in Batches : b \in Seq(Mails)
Entries == Usernames \cup Addresses \cup {Unknown}
Elements(s) == {s[i] : i \in DOMAIN s}

VARIABLES
  pc,       \* where the handler is
  batch,    \* the mails of the request
  k,        \* the mail it is at
  mail,     \* the handler's copy of it
  handed,   \* the mails given to the mailer, each with its number in the batch
  skipped,  \* the numbers of the mails whose lookup failed
  status    \* the answer

vars == <<pc, batch, k, mail, handed, skipped, status>>

Init ==
  /\ pc = "idle" /\ batch = <<>> /\ k = 0 /\ mail = <<>>
  /\ handed = <<>> /\ skipped = {} /\ status = 0

Receive ==
  /\ pc = "idle"
  /\ \E b \in Batches :
       /\ batch' = b
       /\ pc' = IF b = <<>> THEN "answer" ELSE "lookup"
       /\ k' = IF b = <<>> THEN 0 ELSE 1
       /\ mail' = IF b = <<>> THEN <<>> ELSE b[1]
  /\ UNCHANGED <<handed, skipped, status>>

\* The body does not parse, or the mailer is not configured.
Refuse ==
  /\ pc = "idle"
  /\ pc' = "reply"
  /\ \E s \in {400, 500} : status' = s
  /\ UNCHANGED <<batch, k, mail, handed, skipped>>

Advance ==
  /\ k' = IF k = Len(batch) THEN k ELSE k + 1
  /\ pc' = IF k = Len(batch) THEN "answer" ELSE "lookup"
  /\ mail' = IF k = Len(batch) THEN <<>> ELSE batch[k + 1]

(***************************************************************************)
(* The lookup.  A definition marked "mutant" is what a plausible bug would *)
(* make of the one below it; only PROJECT.json uses it.                    *)
(***************************************************************************)
Needed(m) == Usernames \cap UNION {Elements(m[l]) : l \in Lists}

\* Each replacement cuts the list off behind the replaced entry: the second
\* append adds the elements from the cut to the new end, of which there are
\* none.  A later one slices past the end and finds the entries again, so that
\* what is lost in the end is what follows the last replaced entry.
ReplacedOnce(list, to) ==                                      \* mutant
  [i \in DOMAIN list |->
     IF list[i] \in DOMAIN to /\ \A j \in 1..(i - 1) : list[j] # list[i]
     THEN to[list[i]] ELSE list[i]]
Replaced(list, to) ==
  LET new == [i \in DOMAIN list |-> IF list[i] \in DOMAIN to THEN to[list[i]] ELSE list[i]]
      hits == {i \in DOMAIN list : list[i] \in DOMAIN to}
      kept == {i \in DOMAIN list : \E j \in hits : i <= j}
  IN  IF hits = {} THEN new ELSE SubSeq(new, 1, Cardinality(kept))

\* The users that the service may answer when it is asked for these names.  Each
\* of them is put into the map, whether it was asked for or not.
Known(names) == IF UsersModule = "mock" THEN {names} ELSE SUBSET DOMAIN AddressOf

LookUp ==
  /\ pc = "lookup"
  /\ IF Needed(mail) = {} THEN UNCHANGED mail
     ELSE /\ UsersModule # ""
          /\ \E known \in Known(Needed(mail)) :
               LET to == [n \in Needed(mail) \cup known |->
                            IF n \in known THEN AddressOf[n] ELSE Unknown]
               IN  mail' = [l \in Lists |-> Replaced(mail[l], to)]
  /\ pc' = "send"
  /\ UNCHANGED <<batch, k, handed, skipped, status>>

AbortOnFailedLookup ==                                         \* mutant
  /\ pc = "lookup" /\ Needed(mail) # {} /\ UsersModule # "mock"
  /\ skipped' = skipped \cup {k}
  /\ pc' = "answer"
  /\ UNCHANGED <<batch, k, mail, handed, status>>

\* Any call to the user service may fail: the mail is passed over.
FailLookUp ==
  /\ pc = "lookup" /\ Needed(mail) # {} /\ UsersModule # "mock"
  /\ skipped' = skipped \cup {k}
  /\ Advance
  /\ UNCHANGED <<batch, handed, status>>

(***************************************************************************)
(* Sending; what the mailer makes of a mail it is given does not matter.   *)
(***************************************************************************)
AlwaysTo(m) == [m EXCEPT !["to"] = Append(@, ToEmail)]         \* mutant
Addressed(m) == IF m["to"] = <<>> THEN [m EXCEPT !["to"] = <<ToEmail>>] ELSE m

Send ==
  /\ pc = "send"
  /\ handed' = Append(handed, [n |-> k, mail |-> Addressed(mail)])
  /\ Advance
  /\ UNCHANGED <<batch, skipped, status>>

Answer ==
  /\ pc = "answer"
  /\ pc' = "reply" /\ status' = 200
  /\ UNCHANGED <<batch, k, mail, handed, skipped>>

ReturnAtOnce ==                                                \* mutant
  /\ pc = "reply"
  /\ pc' = "idle"
  /\ UNCHANGED <<batch, k, mail, handed, skipped, status>>

Return ==
  /\ pc = "reply"
  /\ pc' = "idle" /\ batch' = <<>> /\ k' = 0 /\ mail' = <<>>
  /\ handed' = <<>> /\ skipped' = {} /\ status' = 0

Next == Receive \/ Refuse \/ LookUp \/ FailLookUp \/ Send \/ Answer \/ Return

Spec == Init /\ [][Next]_vars

(***************************************************************************)
(* Properties.                                                             *)
(***************************************************************************)
\* Type invariant of the handler's state.
TypeOK ==
  /\ pc \in {"idle", "lookup", "send", "answer", "reply"}
  /\ k \in 0..Len(batch) /\ skipped \subseteq DOMAIN batch
  /\ pc \in {"lookup", "send"} => DOMAIN mail = Lists /\ k > 0
  /\ pc = "idle" => batch = <<>> /\ handed = <<>> /\ skipped = {} /\ status = 0

\* One mail's failed lookup stops no other: when the request is answered 200,
\* each of its mails was handed over, once and in order, or passed over for a
\* lookup of its own that failed.
EachMailOnItsOwn ==
  pc = "reply" /\ status = 200 =>
    /\ {handed[i].n : i \in DOMAIN handed} = DOMAIN batch \ skipped
    /\ \A i, j \in DOMAIN handed : i < j => handed[i].n < handed[j].n

\* Nobody else gets a mail, whatever users the service answers: each entry handed
\* over stands where the request has that entry, or the username of the user whose
\* address it is, or a username for which it has nothing at all; TO_EMAIL gets only
\* the mails without recipients.
NobodyElse ==
  \A i \in DOMAIN handed : \A l \in Lists :
    LET asked == batch[handed[i].n][l]
        given == handed[i].mail[l]
    IN  \/ l = "to" /\ asked = <<>> /\ given = <<ToEmail>>
        \/ \A e \in DOMAIN given :
             /\ e \in DOMAIN asked
             /\ \/ given[e] = asked[e]
                \/ asked[e] \in DOMAIN AddressOf /\ given[e] = AddressOf[asked[e]]
                \/ asked[e] \in Usernames /\ given[e] = Unknown

\* No username reaches the mailer, wherever and however often it stands.
NoUsernameIsSent ==
  \A i \in DOMAIN handed : \A l \in Lists :
    Elements(handed[i].mail[l]) \cap Usernames = {}

\* "the mailer resolves username-only recipients to email addresses"
\* (ARCHITECTURE.md:128): the other recipients stay.
AddressesStay ==
  \A i \in DOMAIN handed : \A l \in Lists :
    Elements(batch[handed[i].n][l]) \cap Addresses
      \subseteq Elements(handed[i].mail[l])
=============================================================================
