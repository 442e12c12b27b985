----------------------------- MODULE MailProofs -----------------------------
(***************************************************************************)
(* Theorems about MailDelivery, for any usernames and addresses, and any   *)
(* requests with any number of mails and entries.                          *)
(***************************************************************************)
EXTENDS MailDelivery, FiniteSetTheorems, SequenceTheorems, TLAPS

LEMMA Interval ==
  ASSUME NEW n \in Nat
  PROVE  IsFiniteSet(1..n) /\ Cardinality(1..n) = n
BY FS_Interval

USE NamesAssumption, BatchesAssumption
USE DEF NamesAssumption, BatchesAssumption

\* What an entry that is handed over may be, for one that was asked for.
Meant(asked, given) ==
  /\ given \in Addresses \cup {Unknown}
  /\ \/ given = asked
     \/ asked \in DOMAIN AddressOf /\ given = AddressOf[asked]
     \/ asked \in Usernames /\ given = Unknown

\* A list that was cut off, and is not empty but for one that was.
Fits(asked, given) ==
  /\ given \in Seq(Entries)
  /\ \A e \in DOMAIN given : e \in DOMAIN asked /\ Meant(asked[e], given[e])
  /\ given = <<>> => asked = <<>>

(***************************************************************************)
(* Replacing usernames.                                                    *)
(***************************************************************************)
\* However the replacements cut a list off, what is left stands where it stood,
\* and is an address or nothing.
LEMMA ReplacedFits ==
  ASSUME NEW list \in Seq(Usernames \cup Addresses), NEW N \in SUBSET DOMAIN AddressOf,
         Elements(list) \cap Usernames \subseteq N,
         NEW to \in [N -> Addresses \cup {Unknown}],
         \A n \in N : to[n] = AddressOf[n] \/ (n \in Usernames /\ to[n] = Unknown)
  PROVE  Fits(list, Replaced(list, to))
<1> DEFINE new == [i \in DOMAIN list |-> IF list[i] \in DOMAIN to THEN to[list[i]] ELSE list[i]]
           hits == {i \in DOMAIN list : list[i] \in DOMAIN to}
           kept == {i \in DOMAIN list : \E j \in hits : i <= j}
           cut == Cardinality(kept)
<1>1. DOMAIN list = 1..Len(list) /\ Len(list) \in Nat /\ DOMAIN to = N
  BY LenProperties
<1>2. \A i \in DOMAIN list : list[i] \in Usernames \cup Addresses
  BY <1>1, ElementOfSeq
<1>3. \A i \in DOMAIN list : Meant(list[i], new[i])
  BY <1>1, <1>2 DEF Meant, Elements
<1>4. new \in [1..Len(list) -> Entries] /\ new \in Seq(Entries)
  <2>1. new \in [1..Len(list) -> Entries]
    BY <1>1, <1>3 DEF Meant, Entries
  <2>2. QED
    BY <1>1, <2>1, SeqDef
<1>5. CASE hits = {}
  <2>1. Replaced(list, to) = new
    BY <1>5 DEF Replaced
  <2>2. new = <<>> => list = <<>>
    BY <1>1, <1>4
  <2>3. QED
    BY <1>1, <1>3, <1>4, <2>1, <2>2 DEF Fits
<1>6. CASE hits # {}
  <2>1. Replaced(list, to) = SubSeq(new, 1, cut)
    BY <1>6 DEF Replaced
  <2>2. cut \in 1..Len(list)
    <3>1. kept \in SUBSET (1..Len(list)) /\ kept # {}
      BY <1>1, <1>6
    <3>2. IsFiniteSet(1..Len(list)) /\ Cardinality(1..Len(list)) = Len(list)
      BY <1>1, Interval
    <3>3. IsFiniteSet(kept) /\ cut <= Len(list)
      BY <3>1, <3>2, FS_Subset
    <3>4. cut \in Nat
      BY <3>3, FS_CardinalityType
    <3>5. cut # 0
      BY <3>1, <3>3, FS_EmptySet
    <3>6. QED
      BY <1>1, <3>3, <3>4, <3>5
  <2>3. \A i \in 1..cut : new[i] \in Entries
    BY <1>1, <1>4, <2>2
  <2> HIDE DEF new, cut
  <2>4. /\ SubSeq(new, 1, cut) \in Seq(Entries)
        /\ Len(SubSeq(new, 1, cut)) = cut
        /\ \A i \in 1..cut : SubSeq(new, 1, cut)[i] = new[i]
    BY <2>2, <2>3, SubSeqProperties
  <2>5. DOMAIN SubSeq(new, 1, cut) = 1..cut /\ SubSeq(new, 1, cut) # <<>>
    <3>1. DOMAIN SubSeq(new, 1, cut) = 1..cut
      BY <2>4, LenProperties
    <3>2. SubSeq(new, 1, cut) # <<>>
      <4>1. 1 \in 1..cut
        BY <1>1, <2>2
      <4>2. DOMAIN <<>> = {}
        OBVIOUS
      <4>3. QED
        BY <3>1, <4>1, <4>2, Zenon
    <3>3. QED
      BY <3>1, <3>2
  <2>6. QED
    BY <1>1, <1>3, <2>1, <2>2, <2>4, <2>5 DEF Fits
<1>7. QED
  BY <1>5, <1>6

(***************************************************************************)
(* The inductive invariant.                                                *)
(***************************************************************************)
Handed == [n : Nat \ {0}, mail : [Lists -> Seq(Entries)]]

\* How many mails of the batch the handler is done with.
Done == IF pc \in {"lookup", "send"} THEN k - 1 ELSE k

Types ==
  /\ TypeOK
  /\ batch \in Seq(Mails)
  /\ k \in Nat
  /\ pc = "idle" => k = 0
  /\ pc \in {"answer", "reply"} => k = Len(batch)
  /\ handed \in Seq(Handed)
  /\ pc = "lookup" => mail = batch[k]
  /\ pc = "send" => mail \in [Lists -> Seq(Entries)] /\ \A l \in Lists : Fits(batch[k][l], mail[l])

\* Each mail the handler is done with was handed over once, in order, or skipped.
InTurn ==
  /\ skipped \subseteq 1..Done
  /\ \A i \in DOMAIN handed : handed[i].n \in 1..Done /\ handed[i].n \notin skipped
  /\ \A n \in (1..Done) \ skipped : \E i \in DOMAIN handed : handed[i].n = n
  /\ \A i, j \in DOMAIN handed : i < j => handed[i].n < handed[j].n

\* Every list that was handed over was asked for, or is TO_EMAIL for none.
AsAsked ==
  \A i \in DOMAIN handed : \A l \in Lists :
    LET asked == batch[handed[i].n][l]
        given == handed[i].mail[l]
    IN  \/ l = "to" /\ asked = <<>> /\ given = <<ToEmail>>
        \/ Fits(asked, given)

MailInv == Types /\ InTurn /\ AsAsked

LEMMA InitMail == Init => MailInv
BY EmptySeq, LenProperties DEF Init, MailInv, Types, TypeOK, InTurn, AsAsked, Done

\* A mail of the batch, and its lists.
LEMMA MailOfBatch ==
  ASSUME batch \in Seq(Mails), NEW n \in 1..Len(batch)
  PROVE  /\ batch[n] \in Mails /\ DOMAIN batch[n] = Lists
         /\ \A l \in Lists : batch[n][l] \in Seq(Usernames \cup Addresses)
<1>1. batch[n] \in Mails
  BY ElementOfSeq
<1>2. QED
  BY <1>1 DEF Mails

\* The handler goes on to the next mail, or is done with all of them.
LEMMA Advances ==
  ASSUME Types, pc \in {"lookup", "send"}, Advance, batch' = batch
  PROVE  /\ k \in 1..Len(batch) /\ Done = k - 1 /\ Done' = k /\ Len(batch) \in Nat
         /\ k' \in 0..Len(batch) /\ k' \in Nat
         /\ \/ pc' = "answer" /\ k' = Len(batch)
            \/ pc' = "lookup" /\ k' \in 1..Len(batch) /\ mail' = batch[k'] /\ DOMAIN mail' = Lists
<1>1. k \in 1..Len(batch) /\ Len(batch) \in Nat
  BY LenProperties DEF Types, TypeOK
<1>2. CASE k = Len(batch)
  BY <1>1, <1>2 DEF Advance, Done
<1>3. CASE k # Len(batch)
  <2>1. k' = k + 1 /\ k' \in 1..Len(batch) /\ pc' = "lookup" /\ mail' = batch[k']
    BY <1>1, <1>3 DEF Advance
  <2>2. DOMAIN mail' = Lists
    BY <2>1, MailOfBatch DEF Types
  <2>3. QED
    BY <1>1, <2>1, <2>2 DEF Done
<1>4. QED
  BY <1>2, <1>3

LEMMA NextMail == MailInv /\ [Next]_vars => MailInv'
<1> SUFFICES ASSUME MailInv, [Next]_vars PROVE MailInv'
  OBVIOUS
<1>0. Types /\ InTurn /\ AsAsked
  BY DEF MailInv
<1>b. Len(batch) \in Nat /\ DOMAIN batch = 1..Len(batch) /\ handed \in Seq(Handed)
  BY <1>0, LenProperties DEF Types
<1>1. CASE Receive
  <2>1. PICK b \in Batches :
          /\ batch' = b
          /\ pc' = IF b = <<>> THEN "answer" ELSE "lookup"
          /\ k' = IF b = <<>> THEN 0 ELSE 1
          /\ mail' = IF b = <<>> THEN <<>> ELSE b[1]
    BY <1>1 DEF Receive
  <2>2. handed = <<>> /\ skipped = {} /\ status = 0 /\ UNCHANGED <<handed, skipped, status>>
    BY <1>0, <1>1 DEF Receive, Types, TypeOK
  <2>3. b \in Seq(Mails) /\ DOMAIN b = 1..Len(b) /\ (b = <<>> => Len(b) = 0)
        /\ (b # <<>> => Len(b) \in Nat \ {0})
    BY EmptySeq, LenProperties
  <2>4. b # <<>> => DOMAIN b[1] = Lists
    BY <2>3, ElementOfSeq DEF Mails
  <2>5. Types'
    BY <1>b, <2>1, <2>2, <2>3, <2>4 DEF Types, TypeOK
  <2>6. InTurn' /\ AsAsked'
    BY <2>1, <2>2, EmptySeq, LenProperties DEF InTurn, AsAsked, Done
  <2>7. QED
    BY <2>5, <2>6 DEF MailInv
<1>2. CASE Refuse
  <2>1. /\ pc' = "reply" /\ k = 0 /\ batch = <<>> /\ handed = <<>> /\ skipped = {}
        /\ UNCHANGED <<batch, k, mail, handed, skipped>>
    BY <1>0, <1>2 DEF Refuse, Types, TypeOK
  <2>2. Types'
    BY <1>0, <2>1, EmptySeq DEF Types, TypeOK
  <2>3. InTurn' /\ AsAsked'
    BY <2>1, EmptySeq, LenProperties DEF InTurn, AsAsked, Done
  <2>4. QED
    BY <2>2, <2>3 DEF MailInv
<1>3. CASE LookUp
  <2>1. /\ pc = "lookup" /\ pc' = "send" /\ mail = batch[k] /\ k \in 1..Len(batch)
        /\ UNCHANGED <<batch, k, handed, skipped, status>>
    <3>1. pc = "lookup" /\ pc' = "send" /\ UNCHANGED <<batch, k, handed, skipped, status>>
      BY <1>3 DEF LookUp
    <3>2. mail = batch[k] /\ k \in 1..Len(batch)
      BY <1>0, <1>b, <3>1 DEF Types, TypeOK
    <3>3. QED
      BY <3>1, <3>2
  <2>2. \A l \in Lists : mail[l] \in Seq(Usernames \cup Addresses)
    BY <1>0, <2>1, MailOfBatch DEF Types
  <2>3. mail' \in [Lists -> Seq(Entries)] /\ \A l \in Lists : Fits(mail[l], mail'[l])
    <3>1. CASE Needed(mail) = {}
      <4>1. ASSUME NEW l \in Lists PROVE mail[l] \in Seq(Entries) /\ Fits(mail[l], mail[l])
        <5>1. mail[l] \in Seq(Usernames \cup Addresses) /\ DOMAIN mail[l] = 1..Len(mail[l])
          BY <2>2, LenProperties
        <5>2. \A e \in DOMAIN mail[l] : mail[l][e] \in Usernames \cup Addresses
          BY <5>1, ElementOfSeq
        <5>3. \A e \in DOMAIN mail[l] : mail[l][e] \in Addresses
          BY <3>1, <5>2 DEF Needed, Elements
        <5>4. mail[l] \in Seq(Entries)
          BY <5>1, SeqMonotonic DEF Entries
        <5>5. QED
          BY <5>3, <5>4 DEF Fits, Meant
      <4>2. mail' = mail
        BY <1>3, <3>1 DEF LookUp
      <4>3. mail \in [Lists -> Seq(Entries)]
        <5>1. mail \in Mails
          BY <1>0, <2>1, MailOfBatch DEF Types
        <5>2. QED
          BY <4>1, <5>1 DEF Mails
      <4>4. QED
        BY <4>1, <4>2, <4>3
    <3>2. CASE Needed(mail) # {}
      <4>1. PICK known \in Known(Needed(mail)) :
              LET to == [n \in Needed(mail) \cup known |->
                           IF n \in known THEN AddressOf[n] ELSE Unknown]
              IN  mail' = [l \in Lists |-> Replaced(mail[l], to)]
        BY <1>3, <3>2 DEF LookUp
      <4> DEFINE N == Needed(mail) \cup known
                 to == [n \in N |-> IF n \in known THEN AddressOf[n] ELSE Unknown]
      <4>2. /\ Needed(mail) \subseteq Usernames /\ N \in SUBSET DOMAIN AddressOf
            /\ known \subseteq DOMAIN AddressOf /\ Needed(mail) \subseteq N
        BY DEF Needed, Known
      <4>3. /\ to \in [N -> Addresses \cup {Unknown}]
            /\ \A n \in N : to[n] = AddressOf[n] \/ (n \in Usernames /\ to[n] = Unknown)
        BY <4>2
      <4>4. mail' = [l \in Lists |-> Replaced(mail[l], to)]
        BY <4>1
      <4> HIDE DEF to, N
      <4>5. ASSUME NEW l \in Lists PROVE Fits(mail[l], Replaced(mail[l], to))
        <5>1. Elements(mail[l]) \cap Usernames \subseteq N
          BY <4>2 DEF Needed
        <5>2. QED
          BY <2>2, <4>2, <4>3, <5>1, ReplacedFits
      <4>6. QED
        BY <4>4, <4>5 DEF Fits
    <3>3. QED
      BY <3>1, <3>2
  <2>4. Types'
    BY <1>0, <2>1, <2>3 DEF Types, TypeOK
  <2>5. InTurn' /\ AsAsked'
    BY <1>0, <2>1 DEF InTurn, AsAsked, Done
  <2>6. QED
    BY <2>4, <2>5 DEF MailInv
<1>4. CASE FailLookUp
  <2>1. Advance /\ pc \in {"lookup", "send"} /\ skipped' = skipped \cup {k}
        /\ UNCHANGED <<batch, handed, status>>
    BY <1>4 DEF FailLookUp
  <2>a. /\ k \in 1..Len(batch) /\ Done = k - 1 /\ Done' = k
        /\ k' \in 0..Len(batch) /\ k' \in Nat
        /\ \/ pc' = "answer" /\ k' = Len(batch)
           \/ pc' = "lookup" /\ k' \in 1..Len(batch) /\ mail' = batch[k'] /\ DOMAIN mail' = Lists
    BY <1>0, <2>1, Advances
  <2>2. Types'
    <3>1. skipped' \subseteq DOMAIN batch
      BY <1>0, <1>b, <2>1, <2>a DEF Types, TypeOK
    <3>2. QED
      BY <1>0, <2>1, <2>a, <3>1 DEF Types, TypeOK
  <2>3. InTurn'
    <3>1. skipped' \subseteq 1..Done'
      <4>1. skipped \subseteq 1..(k - 1)
        BY <1>0, <2>a DEF InTurn
      <4>2. 1..(k - 1) \subseteq 1..k /\ k \in 1..k
        BY <1>b, <2>a
      <4>3. QED
        BY <2>1, <2>a, <4>1, <4>2
    <3>2. \A i \in DOMAIN handed : handed[i].n \in 1..Done' /\ handed[i].n \notin skipped'
      BY <1>0, <1>b, <2>1, <2>a DEF InTurn
    <3>3. \A n \in (1..Done') \ skipped' : n \in (1..Done) \ skipped
      BY <1>b, <2>1, <2>a
    <3>4. QED
      BY <1>0, <2>1, <3>1, <3>2, <3>3 DEF InTurn
  <2>4. AsAsked'
    BY <1>0, <2>1 DEF AsAsked
  <2>5. QED
    BY <2>2, <2>3, <2>4 DEF MailInv
<1>5. CASE Send
  <2> DEFINE given == [n |-> k, mail |-> Addressed(mail)]
  <2>1. /\ pc = "send" /\ Advance /\ handed' = Append(handed, given)
        /\ UNCHANGED <<batch, skipped, status>>
    BY <1>5 DEF Send
  <2>2. k \in 1..Len(batch) /\ Done = k - 1 /\ Done' = k
    BY <1>0, <2>1, Advances
  <2>3. mail \in [Lists -> Seq(Entries)] /\ \A l \in Lists : Fits(batch[k][l], mail[l])
    BY <1>0, <2>1 DEF Types
  <2>4. /\ Addressed(mail) \in [Lists -> Seq(Entries)]
        /\ \A l \in Lists : \/ l = "to" /\ batch[k][l] = <<>> /\ Addressed(mail)[l] = <<ToEmail>>
                            \/ Fits(batch[k][l], Addressed(mail)[l])
    <3>1. CASE mail["to"] = <<>>
      <4>1. Addressed(mail) = [mail EXCEPT !["to"] = <<ToEmail>>]
        BY <3>1 DEF Addressed
      <4>2. <<ToEmail>> \in Seq(Entries)
        BY DEF Entries
      <4>3. "to" \in Lists /\ batch[k]["to"] = <<>>
        BY <2>3, <3>1 DEF Fits, Lists
      <4>4. QED
        BY <2>3, <4>1, <4>2, <4>3
    <3>2. CASE mail["to"] # <<>>
      BY <2>3, <3>2 DEF Addressed
    <3>3. QED
      BY <3>1, <3>2
  <2>5. given \in Handed
    BY <2>2, <2>4 DEF Handed
  <2> HIDE DEF given
  <2>6. /\ handed' \in Seq(Handed) /\ Len(handed') = Len(handed) + 1 /\ Len(handed) \in Nat
        /\ DOMAIN handed = 1..Len(handed) /\ DOMAIN handed' = 1..(Len(handed) + 1)
        /\ \A i \in DOMAIN handed : handed'[i] = handed[i]
        /\ handed'[Len(handed) + 1] = given
    <3>1. DOMAIN handed = 1..Len(handed) /\ Len(handed) \in Nat
      BY <1>b, LenProperties
    <3>2. /\ handed' \in Seq(Handed) /\ Len(handed') = Len(handed) + 1
          /\ \A i \in 1..Len(handed) : handed'[i] = handed[i]
          /\ handed'[Len(handed) + 1] = given
      BY <1>b, <2>1, <2>5, AppendProperties
    <3>3. QED
      BY <3>1, <3>2, LenProperties
  <2>7. Types'
    BY <1>0, <1>b, <2>1, <2>6, Advances DEF Types, TypeOK
  <2>8. InTurn'
    <3>1. given.n = k
      BY DEF given
    <3>2. \A i \in DOMAIN handed : handed'[i].n \in 1..(k - 1)
      BY <1>0, <2>2, <2>6 DEF InTurn
    <3>3. skipped' \subseteq 1..Done' /\ k \notin skipped'
      BY <1>0, <2>1, <2>2 DEF InTurn
    <3>4. \A i \in DOMAIN handed' : handed'[i].n \in 1..Done' /\ handed'[i].n \notin skipped'
      BY <1>0, <2>1, <2>2, <2>6, <3>1, <3>2, <3>3 DEF InTurn
    <3>5. \A n \in (1..Done') \ skipped' : \E i \in DOMAIN handed' : handed'[i].n = n
      <4>1. \A n \in (1..(k - 1)) \ skipped : \E i \in DOMAIN handed : handed[i].n = n
        BY <1>0, <2>2 DEF InTurn
      <4>2. ASSUME NEW n \in (1..k) \ skipped PROVE \E i \in DOMAIN handed' : handed'[i].n = n
        BY <2>2, <2>6, <3>1, <4>1
      <4>3. QED
        BY <2>1, <2>2, <4>2
    <3>6. \A i, j \in DOMAIN handed' : i < j => handed'[i].n < handed'[j].n
      BY <1>0, <2>2, <2>6, <3>1, <3>2 DEF InTurn
    <3>7. QED
      BY <3>3, <3>4, <3>5, <3>6 DEF InTurn
  <2>9. AsAsked'
    <3>1. given.n = k /\ given.mail = Addressed(mail)
      BY DEF given
    <3>2. \A i \in DOMAIN handed' : i \in DOMAIN handed \/ handed'[i] = given
      BY <2>6
    <3>3. QED
      BY <1>0, <2>1, <2>4, <2>6, <3>1, <3>2 DEF AsAsked
  <2>10. QED
    BY <2>7, <2>8, <2>9 DEF MailInv
<1>6. CASE Answer
  <2>1. pc = "answer" /\ pc' = "reply" /\ UNCHANGED <<batch, k, mail, handed, skipped>>
    BY <1>6 DEF Answer
  <2>2. Types' /\ InTurn' /\ AsAsked'
    BY <1>0, <2>1 DEF Types, TypeOK, InTurn, AsAsked, Done
  <2>3. QED
    BY <2>2 DEF MailInv
<1>7. CASE Return
  <2>1. Init'
    BY <1>7 DEF Return, Init
  <2>2. MailInv'
    BY <2>1, EmptySeq, LenProperties DEF Init, MailInv, Types, TypeOK, InTurn, AsAsked, Done
  <2>3. QED
    BY <2>2
<1>8. CASE UNCHANGED vars
  BY <1>0, <1>8 DEF vars, MailInv, Types, TypeOK, InTurn, AsAsked, Done
<1>9. QED
  BY <1>1, <1>2, <1>3, <1>4, <1>5, <1>6, <1>7, <1>8 DEF Next

LEMMA MailHolds == Spec => []MailInv
BY InitMail, NextMail, PTL DEF Spec

\* Type correctness of the handler's state.
THEOREM TypeInvariant == Spec => []TypeOK
<1>1. MailInv => TypeOK
  BY DEF MailInv, Types
<1>2. QED
  BY <1>1, MailHolds, PTL

\* One mail's failed lookup stops no other: each is handed over once and in order,
\* or skipped for a lookup of its own.
THEOREM MailsAreIndependent == Spec => []EachMailOnItsOwn
<1>1. MailInv => EachMailOnItsOwn
  <2> SUFFICES ASSUME MailInv, pc = "reply" PROVE EachMailOnItsOwn
    BY DEF EachMailOnItsOwn
  <2>1. DOMAIN batch = 1..Len(batch) /\ Done = Len(batch)
    BY LenProperties DEF MailInv, Types, Done
  <2>2. QED
    BY <2>1 DEF MailInv, InTurn, EachMailOnItsOwn
<1>2. QED
  BY <1>1, MailHolds, PTL

\* Nobody gets a mail that does not name him, by an address or by his username,
\* whatever users the service answers; but TO_EMAIL gets those that name nobody.
THEOREM NobodyElseIsMailed == Spec => []NobodyElse
<1>1. MailInv => NobodyElse
  BY DEF MailInv, AsAsked, Fits, Meant, NobodyElse
<1>2. QED
  BY <1>1, MailHolds, PTL

\* No username reaches the mailer.
THEOREM UsernamesAreReplaced == Spec => []NoUsernameIsSent
<1>1. MailInv => NoUsernameIsSent
  <2> SUFFICES ASSUME MailInv, NEW i \in DOMAIN handed, NEW l \in Lists
               PROVE  \A e \in DOMAIN handed[i].mail[l] : handed[i].mail[l][e] \notin Usernames
    BY DEF NoUsernameIsSent, Elements
  <2>1. CASE handed[i].mail[l] = <<ToEmail>>
    BY <2>1
  <2>2. CASE Fits(batch[handed[i].n][l], handed[i].mail[l])
    BY <2>2 DEF Fits, Meant
  <2>3. QED
    BY <2>1, <2>2 DEF MailInv, AsAsked
<1>2. QED
  BY <1>1, MailHolds, PTL
=============================================================================
