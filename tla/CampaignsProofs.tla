--------------------------- MODULE CampaignsProofs ---------------------------
(***************************************************************************)
(* What holds of campaigns for any audience, any number of overlapping     *)
(* runs of the sender and of form requests, dying and saving at any time.  *)
(* There is a lemma for each action, or group of actions that touch the    *)
(* same tables; they add up to Step.                                       *)
(***************************************************************************)
EXTENDS Campaigns, TLAPS

(* Before the first start there is nothing to disagree. *)
LEMMA InitInv == ASSUME Init PROVE IInv
<1>1. TypeOK
  <2>1. campaign \in CampaignStatus /\ send \in [Guest -> SendStatus] /\ mailed \in [Guest -> Nat]
    BY DEF Init, CampaignStatus, SendStatus
  <2>2. optIn \subseteq Guest /\ withdrawn \subseteq Guest /\ deaths \in 0 .. MaxDeaths
    BY CampaignBounds DEF Init
  <2>3. work \subseteq Work /\ editing \subseteq Editor /\ noting \subseteq Note /\ reverted \in BOOLEAN
    BY DEF Init
  <2> QED
    BY <2>1, <2>2, <2>3 DEF Init, TypeOK
<1>2. RowsOwned /\ WithdrawnNotChecked /\ StartedOnce
  BY DEF Init, RowsOwned, WithdrawnNotChecked, StartedOnce
<1>3. NobodyMailedTwice /\ LogIsTrue /\ WithdrawalHonoured /\ SentMeansDrained
  BY DEF Init, NobodyMailedTwice, LogIsTrue, WithdrawalHonoured, SentMeansDrained
<1> QED
  BY <1>1, <1>2, <1>3 DEF IInv

(* Steps that leave the queue, the mail and the runs alone, and withdraw no  *)
(* guest but one who is still queued.                                        *)
LEMMA FlagStep ==
  ASSUME IInv, TypeOK', UNCHANGED <<rows, mailed, work, reverted>>,
         withdrawn' \cap optIn' = {}, withdrawn' \subseteq withdrawn \cup Pending
  PROVE  IInv'
<1>1. NobodyMailedTwice' /\ LogIsTrue' /\ RowsOwned'
  BY DEF IInv, rows, NobodyMailedTwice, LogIsTrue, RowsOwned
<1>2. SentMeansDrained' /\ StartedOnce'
  BY DEF IInv, rows, SentMeansDrained, StartedOnce, Remaining, InStatus
<1>3. \A g \in Pending : mailed[g] = 0 /\ \A w \in work : g \notin w.row
  BY DEF IInv, Pending, InStatus, LogIsTrue, RowsOwned
<1>4. WithdrawalHonoured'
  BY <1>3 DEF IInv, WithdrawalHonoured
<1>5. WithdrawnNotChecked'
  BY <1>3 DEF IInv, WithdrawnNotChecked
<1> QED
  BY <1>1, <1>2, <1>4, <1>5 DEF IInv

(* Guests and the audience form. *)
LEMMA ConsentStep ==
  ASSUME IInv,
         \/ \E g \in Guest : OptIn(g) \/ OptOut(g)
         \/ \E n \in noting : SaveGuest(n)
         \/ \E e \in Editor, g \in Guest : LoadGuest(e, g)
         \/ \E e \in Editor : LoadCampaign(e)
  PROVE  IInv'
<1>1. TypeOK /\ withdrawn \cap optIn = {} /\ Pending \subseteq Guest
  BY DEF IInv, WithdrawnNotChecked, Pending, InStatus
<1>2. UNCHANGED <<rows, mailed, work, reverted>>
  BY DEF OptIn, OptOut, SaveGuest, LoadGuest, LoadCampaign, rows, forms, past
<1>3. withdrawn' \cap optIn' = {} /\ withdrawn' \subseteq withdrawn \cup Pending
  <2>1. CASE \E g \in Guest : OptIn(g) \/ OptOut(g)
    BY <1>1, <2>1 DEF OptIn, OptOut
  <2>2. CASE \E n \in noting : SaveGuest(n)
    BY <1>1, <2>2 DEF SaveGuest
  <2>3. CASE \/ \E e \in Editor, g \in Guest : LoadGuest(e, g)
             \/ \E e \in Editor : LoadCampaign(e)
    BY <1>1, <2>3 DEF LoadGuest, LoadCampaign, rows, past
  <2> QED
    BY <2>1, <2>2, <2>3
<1>4. TypeOK'
  <2>1. CASE \E g \in Guest : OptIn(g) \/ OptOut(g)
    BY <1>1, <2>1 DEF OptIn, OptOut, TypeOK, rows, forms
  <2>2. CASE \E n \in noting : SaveGuest(n)
    BY <1>1, <2>2 DEF SaveGuest, TypeOK, rows, Note
  <2>3. CASE \E e \in Editor, g \in Guest : LoadGuest(e, g)
    <3>1. PICK e \in Editor, g \in Guest : LoadGuest(e, g)
      BY <2>3
    <3> DEFINE n == [editor |-> e, guest |-> g, optIn |-> g \in optIn]
    <3>2. (g \in optIn) \in BOOLEAN
      OBVIOUS
    <3>3. n \in Note
      BY <3>2, Zenon DEF Note
    <3>4. noting' = noting \cup {n}
      BY <3>1 DEF LoadGuest
    <3> HIDE DEF n
    <3> QED
      BY <1>1, <3>1, <3>3, <3>4 DEF LoadGuest, TypeOK, rows, past
  <2>4. CASE \E e \in Editor : LoadCampaign(e)
    BY <1>1, <2>4 DEF LoadCampaign, TypeOK, rows, past
  <2> QED
    BY <2>1, <2>2, <2>3, <2>4
<1> QED
  BY <1>2, <1>3, <1>4, FlagStep

(* Starting: rows are added for guests who had none. *)
LEMMA StartStep ==
  ASSUME IInv, NEW matching \in SUBSET Guest, StartCampaign(matching)
  PROVE  IInv'
<1> DEFINE R == Segment(matching)
<1>0. /\ campaign = "draft" /\ campaign' = Started(R) /\ send' = Queue(R)
      /\ UNCHANGED <<optIn, mailed, work, editing, noting, withdrawn, reverted, deaths>>
  BY DEF StartCampaign, forms, past
<1>1. R \subseteq Guest
  BY DEF Segment
<1>2. \A g \in Guest : \/ send'[g] = send[g]
                       \/ send[g] = "none" /\ send'[g] = "pending" /\ g \in R
  BY <1>0 DEF Queue, IInv, TypeOK
<1> HIDE DEF R
<1>3. TypeOK'
  BY <1>0, <1>2 DEF IInv, TypeOK, Started, Queue, CampaignStatus, SendStatus
<1>4. NobodyMailedTwice' /\ LogIsTrue' /\ WithdrawalHonoured' /\ WithdrawnNotChecked'
  BY <1>0, <1>2 DEF IInv, NobodyMailedTwice, LogIsTrue, WithdrawalHonoured, WithdrawnNotChecked
<1>5. RowsOwned'
  <2>1. \A w \in work : w.row \subseteq Guest
    BY DEF IInv, TypeOK, Work
  <2> QED
    BY <1>0, <1>2, <2>1 DEF IInv, RowsOwned
<1>6. SentMeansDrained' /\ StartedOnce'
  <2>1. campaign' # "draft" /\ reverted' = reverted /\ work' = work
    BY <1>0 DEF Started
  <2>2. CASE reverted
    BY <2>1, <2>2 DEF SentMeansDrained, StartedOnce
  <2>3. CASE ~reverted
    <3>1. work = {} /\ \A g \in Guest : send[g] = "none"
      BY <1>0, <2>3 DEF IInv, StartedOnce
    <3>2. campaign' = "sent" => Remaining' = {}
      BY <1>0, <3>1 DEF Started, Queue, Remaining, InStatus
    <3> QED
      BY <2>1, <3>1, <3>2 DEF SentMeansDrained, StartedOnce
  <2> QED
    BY <2>2, <2>3
<1> QED
  BY <1>3, <1>4, <1>5, <1>6 DEF IInv

(* Cancelling, and a campaign form saved over whatever is there. *)
LEMMA StatusStep ==
  ASSUME IInv, Cancel \/ \E e \in Editor : SaveCampaign(e)
  PROVE  IInv'
<1>1. UNCHANGED <<send, optIn, mailed, work, noting, withdrawn, deaths>>
  BY DEF Cancel, SaveCampaign, forms, past
<1>2. TypeOK'
  BY <1>1 DEF IInv, TypeOK, Cancel, SaveCampaign, CampaignStatus, forms, past
<1>3. NobodyMailedTwice' /\ LogIsTrue' /\ RowsOwned' /\ WithdrawalHonoured' /\ WithdrawnNotChecked'
  BY <1>1 DEF IInv, NobodyMailedTwice, LogIsTrue, RowsOwned, WithdrawalHonoured, WithdrawnNotChecked
<1>4. SentMeansDrained' /\ StartedOnce'
  BY <1>1 DEF IInv, SentMeansDrained, StartedOnce, Remaining, InStatus, Cancel, SaveCampaign, past
<1> QED
  BY <1>2, <1>3, <1>4 DEF IInv

LEMMA BeginStep ==
  ASSUME IInv, NEW s \in Sender, Begin(s)
  PROVE  IInv'
<1>1. PICK b \in SUBSET Guest :
        work' = work \cup {[sender |-> s, step |-> "claim", todo |-> b, row |-> {}]}
  BY DEF Begin, Batch, Pending, InStatus
<1> DEFINE n == [sender |-> s, step |-> "claim", todo |-> b, row |-> {}]
<1>2. /\ UNCHANGED <<campaign, send, optIn, mailed, editing, noting, withdrawn, reverted, deaths>>
      /\ campaign = "sending" /\ \A w \in work : w.sender # s
  BY DEF Begin, rows, forms, past
<1>3. n \in Work /\ n.row = {} /\ n.step = "claim" /\ n.sender = s
  BY DEF Work
<1>4. work' = work \cup {n}
  BY <1>1
<1> HIDE DEF n
<1>5. TypeOK'
  BY <1>2, <1>3, <1>4 DEF IInv, TypeOK
<1>6. NobodyMailedTwice' /\ LogIsTrue' /\ WithdrawalHonoured' /\ SentMeansDrained'
  BY <1>2 DEF IInv, NobodyMailedTwice, LogIsTrue, WithdrawalHonoured, SentMeansDrained, Remaining, InStatus
<1>7. RowsOwned'
  BY <1>2, <1>3, <1>4 DEF IInv, RowsOwned
<1>8. WithdrawnNotChecked' /\ StartedOnce'
  BY <1>2, <1>3, <1>4 DEF IInv, WithdrawnNotChecked, StartedOnce, Remaining, InStatus
<1> QED
  BY <1>5, <1>6, <1>7, <1>8 DEF IInv

(* A run that moves on in memory only: it keeps its slot, and its row or     *)
(* none, and what its new step says of them holds.                           *)
LEMMA MoveStep ==
  ASSUME IInv, NEW w \in work, NEW n \in Work, Advance(w, n),
         UNCHANGED <<rows, optIn, mailed, forms, past>>,
         n.sender = w.sender, n.row = w.row,
         n.step \in {"claim", "finish"} <=> w.step \in {"claim", "finish"},
         n.step \in {"check", "skip", "mail"} => w.step \in {"check", "skip", "mail"},
         n.step = "sent" => w.step = "sent",
         n.step \in {"mail", "sent", "failed"} => w.row \cap withdrawn = {},
         n.step = "finish" => Remaining = {}
  PROVE  IInv'
<1>1. work' = (work \ {w}) \cup {n}
  BY DEF Advance
<1>2. UNCHANGED <<campaign, send, optIn, mailed, editing, noting, withdrawn, reverted, deaths>>
  BY DEF rows, forms, past
<1>3. TypeOK'
  BY <1>1, <1>2 DEF IInv, TypeOK
<1>4. NobodyMailedTwice' /\ LogIsTrue' /\ WithdrawalHonoured' /\ SentMeansDrained'
  BY <1>2 DEF IInv, NobodyMailedTwice, LogIsTrue, WithdrawalHonoured, SentMeansDrained, Remaining, InStatus
<1>5. RowsOwned'
  <2>1. n.row = {} <=> n.step \in {"claim", "finish"}
    BY DEF IInv, RowsOwned
  <2>2. \A x \in work' : /\ x.row = {} <=> x.step \in {"claim", "finish"}
                        /\ \A g \in x.row :
                              /\ send'[g] = "sending"
                              /\ (x.step \in {"check", "skip", "mail"} => mailed'[g] = 0)
                              /\ (x.step = "sent" => mailed'[g] = 1)
    BY <1>1, <1>2, <2>1 DEF IInv, RowsOwned
  <2>3. \A x, y \in work' : x.row \cap y.row # {} => x = y
    BY <1>1 DEF IInv, RowsOwned
  <2> QED
    BY <2>2, <2>3 DEF RowsOwned
<1>6. WithdrawnNotChecked' /\ StartedOnce'
  BY <1>1, <1>2 DEF IInv, WithdrawnNotChecked, StartedOnce, Remaining, InStatus
<1> QED
  BY <1>3, <1>4, <1>5, <1>6 DEF IInv

(* A run that ends, one way or another. *)
LEMMA LeaveStep ==
  ASSUME IInv, NEW w \in work, work' = work \ {w},
         UNCHANGED <<send, optIn, mailed, forms, withdrawn, reverted>>,
         deaths' \in 0 .. MaxDeaths,
         \/ campaign' = campaign
         \/ w.step = "finish" /\ campaign = "sending" /\ campaign' = "sent"
  PROVE  IInv'
<1>1. UNCHANGED <<editing, noting>> /\ work' \subseteq work
  BY DEF forms
<1>2. TypeOK'
  BY <1>1 DEF IInv, TypeOK, CampaignStatus
<1>3. NobodyMailedTwice' /\ LogIsTrue' /\ WithdrawalHonoured' /\ RowsOwned' /\ WithdrawnNotChecked'
  BY <1>1 DEF IInv, NobodyMailedTwice, LogIsTrue, WithdrawalHonoured, RowsOwned, WithdrawnNotChecked
<1>4. SentMeansDrained' /\ StartedOnce'
  BY <1>1 DEF IInv, SentMeansDrained, StartedOnce, Remaining, InStatus
<1> QED
  BY <1>2, <1>3, <1>4 DEF IInv

LEMMA ClaimStep ==
  ASSUME IInv, NEW w \in work, Claim(w)
  PROVE  IInv'
<1>1. w \in Work /\ w.step = "claim" /\ w.todo \subseteq Guest /\ w.row = {}
  BY DEF IInv, TypeOK, Work, Claim, RowsOwned
<1>2. PICK g \in w.todo :
        IF Claimable(g)
        THEN /\ send' = [send EXCEPT ![g] = "sending"]
             /\ Advance(w, [w EXCEPT !.step = "check", !.todo = @ \ {g}, !.row = {g}])
        ELSE /\ Advance(w, [w EXCEPT !.todo = @ \ {g}])
             /\ UNCHANGED send
  BY DEF Claim
<1>3. UNCHANGED <<campaign, optIn, mailed, editing, noting, withdrawn, reverted, deaths>>
  BY DEF Claim, forms, past
<1>4. CASE ~Claimable(g)
  <2> DEFINE n == [w EXCEPT !.todo = @ \ {g}]
  <2>1. /\ n \in Work /\ n.sender = w.sender /\ n.row = w.row /\ n.step = "claim"
        /\ Advance(w, n) /\ UNCHANGED send
    BY <1>1, <1>2, <1>4 DEF Work
  <2> HIDE DEF n
  <2> QED
    BY <1>1, <1>3, <2>1, MoveStep DEF rows, forms, past
<1>5. CASE Claimable(g)
  <2> DEFINE n == [w EXCEPT !.step = "check", !.todo = @ \ {g}, !.row = {g}]
  <2>1. /\ n \in Work /\ n.sender = w.sender /\ n.row = {g} /\ n.step = "check"
        /\ work' = (work \ {w}) \cup {n} /\ send' = [send EXCEPT ![g] = "sending"]
    BY <1>1, <1>2, <1>5 DEF Work, Advance
  <2> HIDE DEF n
  <2>2. send[g] = "pending" /\ g \in Guest /\ mailed[g] = 0 /\ send \in [Guest -> SendStatus]
    BY <1>1, <1>5 DEF Claimable, IInv, LogIsTrue, TypeOK
  <2>3. TypeOK'
    BY <1>3, <2>1, <2>2 DEF IInv, TypeOK, SendStatus
  <2>4. NobodyMailedTwice' /\ LogIsTrue' /\ WithdrawalHonoured'
    BY <1>3, <2>1, <2>2 DEF IInv, NobodyMailedTwice, LogIsTrue, WithdrawalHonoured
  <2>5. RowsOwned'
    <3>1. \A x \in work : g \notin x.row
      BY <2>2 DEF IInv, RowsOwned
    <3>2. \A x \in work : x.row \subseteq Guest
      BY DEF IInv, TypeOK, Work
    <3>3. \A x \in work' : /\ x.row = {} <=> x.step \in {"claim", "finish"}
                          /\ \A h \in x.row :
                                /\ send'[h] = "sending"
                                /\ (x.step \in {"check", "skip", "mail"} => mailed'[h] = 0)
                                /\ (x.step = "sent" => mailed'[h] = 1)
      BY <1>3, <2>1, <2>2, <3>1, <3>2 DEF IInv, RowsOwned
    <3>4. \A x, y \in work' : x.row \cap y.row # {} => x = y
      BY <2>1, <3>1 DEF IInv, RowsOwned
    <3> QED
      BY <3>3, <3>4 DEF RowsOwned
  <2>6. Remaining' = Remaining
    BY <2>1, <2>2 DEF Remaining, InStatus
  <2>7. WithdrawnNotChecked' /\ SentMeansDrained' /\ StartedOnce'
    BY <1>3, <2>1, <2>2, <2>6 DEF IInv, WithdrawnNotChecked, SentMeansDrained, StartedOnce
  <2> QED
    BY <2>3, <2>4, <2>5, <2>7 DEF IInv
<1> QED
  BY <1>4, <1>5

LEMMA CheckStep ==
  ASSUME IInv, NEW w \in work, CheckConsent(w)
  PROVE  IInv'
<1> DEFINE n == [w EXCEPT !.step = IF StillConsents(w) THEN "mail" ELSE "skip"]
<1>1. w \in Work /\ w.step = "check" /\ Advance(w, n)
  BY DEF IInv, TypeOK, CheckConsent
<1>2. /\ n \in Work /\ n.sender = w.sender /\ n.row = w.row
      /\ n.step = IF StillConsents(w) THEN "mail" ELSE "skip"
  BY <1>1 DEF Work
<1> HIDE DEF n
<1>3. n.step = "mail" => w.row \cap withdrawn = {}
  BY <1>2 DEF StillConsents, IInv, WithdrawnNotChecked
<1> QED
  BY <1>1, <1>2, <1>3, MoveStep DEF CheckConsent

(* The mail goes out, or the host raises before or after it went. *)
LEMMA MailStep ==
  ASSUME IInv, NEW w \in work, SendMail(w) \/ SendMailRaises(w)
  PROVE  IInv'
<1>1. w \in Work /\ w.step = "mail"
  BY DEF IInv, TypeOK, SendMail, SendMailRaises
<1>2. PICK n \in Work :
        /\ Advance(w, n) /\ n.sender = w.sender /\ n.row = w.row
        /\ \/ n.step = "sent" /\ Reach(w)
           \/ n.step = "failed" /\ (Reach(w) \/ UNCHANGED mailed)
  <2>1. CASE SendMail(w)
    <3> DEFINE m == [w EXCEPT !.step = "sent"]
    <3>1. m \in Work /\ m.sender = w.sender /\ m.row = w.row /\ m.step = "sent"
      BY <1>1 DEF Work
    <3> QED
      BY <2>1, <3>1 DEF SendMail
  <2>2. CASE SendMailRaises(w)
    <3> DEFINE m == [w EXCEPT !.step = "failed"]
    <3>1. m \in Work /\ m.sender = w.sender /\ m.row = w.row /\ m.step = "failed"
      BY <1>1 DEF Work
    <3> QED
      BY <2>2, <3>1 DEF SendMailRaises
  <2> QED
    BY <2>1, <2>2
<1>3. UNCHANGED <<campaign, send, optIn, editing, noting, withdrawn, reverted, deaths>>
  BY DEF SendMail, SendMailRaises, rows, forms, past
<1>4. work' = (work \ {w}) \cup {n}
  BY <1>2 DEF Advance
<1>5. /\ mailed' \in [Guest -> Nat]
      /\ \A g \in Guest : g \notin w.row => mailed'[g] = mailed[g]
      /\ \A g \in w.row : mailed'[g] <= 1 /\ (n.step = "sent" => mailed'[g] = 1)
  <2>1. \A g \in w.row : g \in Guest /\ mailed[g] = 0
    BY <1>1 DEF IInv, RowsOwned, Work
  <2> QED
    BY <1>2, <2>1 DEF Reach, IInv, TypeOK
<1>6. w.row \cap withdrawn = {} /\ \A g \in w.row : send[g] = "sending"
  BY <1>1 DEF IInv, WithdrawnNotChecked, RowsOwned
<1>7. TypeOK'
  BY <1>2, <1>3, <1>4, <1>5 DEF IInv, TypeOK
<1>8. NobodyMailedTwice' /\ LogIsTrue' /\ WithdrawalHonoured'
  <2>1. withdrawn \subseteq Guest
    BY DEF IInv, TypeOK
  <2> QED
    BY <1>3, <1>5, <1>6, <2>1 DEF IInv, NobodyMailedTwice, LogIsTrue, WithdrawalHonoured
<1>9. RowsOwned'
  <2>1. n.row # {} /\ n.step \notin {"claim", "finish", "check", "skip", "mail"}
    BY <1>1, <1>2 DEF IInv, RowsOwned
  <2>2. \A x \in work : x.row \subseteq Guest /\ (x # w => x.row \cap w.row = {})
    BY DEF IInv, TypeOK, Work, RowsOwned
  <2>3. ASSUME NEW x \in work \ {w}
        PROVE  /\ x.row = {} <=> x.step \in {"claim", "finish"}
               /\ \A g \in x.row :
                     /\ send'[g] = "sending"
                     /\ (x.step \in {"check", "skip", "mail"} => mailed'[g] = 0)
                     /\ (x.step = "sent" => mailed'[g] = 1)
    <3>1. \A g \in x.row : mailed'[g] = mailed[g]
      BY <1>5, <2>2
    <3> QED
      BY <1>3, <3>1 DEF IInv, RowsOwned
  <2>4. \A g \in n.row : send'[g] = "sending" /\ (n.step = "sent" => mailed'[g] = 1)
    BY <1>2, <1>3, <1>5, <1>6
  <2>5. \A x, y \in work' : x.row \cap y.row # {} => x = y
    BY <1>2, <1>4 DEF IInv, RowsOwned
  <2> QED
    BY <1>4, <2>1, <2>3, <2>4, <2>5 DEF RowsOwned
<1>10. WithdrawnNotChecked' /\ SentMeansDrained' /\ StartedOnce'
  BY <1>2, <1>3, <1>4, <1>6
     DEF IInv, WithdrawnNotChecked, SentMeansDrained, StartedOnce, Remaining, InStatus
<1> QED
  BY <1>7, <1>8, <1>9, <1>10 DEF IInv

(* The outcome is written to the row this run owns, and to no other. *)
LEMMA RecordStep ==
  ASSUME IInv, NEW w \in work, Record(w)
  PROVE  IInv'
<1> DEFINE n == [w EXCEPT !.step = "claim", !.row = {}]
<1>1. w \in Work /\ w.step \in {"skip", "sent", "failed"}
  BY DEF IInv, TypeOK, Record
<1>2. n \in Work /\ n.sender = w.sender /\ n.row = {} /\ n.step = "claim"
  BY <1>1 DEF Work
<1>3. /\ work' = (work \ {w}) \cup {n}
      /\ UNCHANGED <<campaign, optIn, mailed, editing, noting, withdrawn, reverted, deaths>>
      /\ send' = [g \in Guest |-> IF g \in w.row THEN Outcome(w) ELSE send[g]]
  BY DEF Record, Advance, forms, past
<1> HIDE DEF n
<1>4. /\ Outcome(w) \in {"skipped", "sent", "failed"}
      /\ Outcome(w) = "skipped" => w.step = "skip"
      /\ Outcome(w) = "sent" => w.step = "sent"
  BY <1>1 DEF Outcome
<1>5. \A g \in w.row : g \in Guest /\ send[g] = "sending"
  BY <1>1 DEF IInv, RowsOwned, Work
<1>6. TypeOK'
  <2>1. send' \in [Guest -> SendStatus]
    BY <1>3, <1>4 DEF IInv, TypeOK, SendStatus
  <2> QED
    BY <1>2, <1>3, <2>1 DEF IInv, TypeOK
<1>7. NobodyMailedTwice' /\ WithdrawalHonoured'
  BY <1>3 DEF IInv, NobodyMailedTwice, WithdrawalHonoured
<1>8. LogIsTrue'
  BY <1>3, <1>4 DEF IInv, LogIsTrue, RowsOwned
<1>9. RowsOwned'
  <2>1. \A x \in work : x.row \subseteq Guest /\ (x # w => x.row \cap w.row = {})
    BY DEF IInv, TypeOK, Work, RowsOwned
  <2>2. ASSUME NEW x \in work \ {w}
        PROVE  /\ x.row = {} <=> x.step \in {"claim", "finish"}
               /\ \A g \in x.row :
                     /\ send'[g] = "sending"
                     /\ (x.step \in {"check", "skip", "mail"} => mailed'[g] = 0)
                     /\ (x.step = "sent" => mailed'[g] = 1)
    <3>1. \A g \in x.row : send'[g] = send[g]
      BY <1>3, <2>1
    <3> QED
      BY <1>3, <3>1 DEF IInv, RowsOwned
  <2>3. \A x, y \in work' : x.row \cap y.row # {} => x = y
    BY <1>2, <1>3 DEF IInv, RowsOwned
  <2> QED
    BY <1>2, <1>3, <2>2, <2>3 DEF RowsOwned
<1>10. Remaining' \subseteq Remaining
  BY <1>3, <1>4 DEF Remaining, InStatus
<1>11. WithdrawnNotChecked' /\ SentMeansDrained'
  BY <1>2, <1>3, <1>10 DEF IInv, WithdrawnNotChecked, SentMeansDrained
<1>12. StartedOnce'
  BY <1>2, <1>3, <1>10 DEF IInv, StartedOnce
<1> QED
  BY <1>6, <1>7, <1>8, <1>9, <1>11, <1>12 DEF IInv

LEMMA CountStep ==
  ASSUME IInv, NEW w \in work, CountRemaining(w)
  PROVE  IInv'
<1>1. w \in Work /\ w.step = "claim" /\ UNCHANGED <<rows, optIn, mailed, forms, past>>
  BY DEF IInv, TypeOK, CountRemaining
<1>2. CASE Drained
  <2> DEFINE n == [w EXCEPT !.step = "finish"]
  <2>1. n \in Work /\ n.sender = w.sender /\ n.row = w.row /\ n.step = "finish" /\ Advance(w, n)
    BY <1>1, <1>2 DEF Work, CountRemaining, Advance
  <2> HIDE DEF n
  <2> QED
    BY <1>1, <1>2, <2>1, MoveStep DEF Drained
<1>3. CASE ~Drained
  <2>1. work' = work \ {w} /\ deaths' \in 0 .. MaxDeaths
    BY <1>1, <1>3 DEF CountRemaining, past, IInv, TypeOK
  <2> QED
    BY <1>1, <2>1, LeaveStep DEF rows, past
<1> QED
  BY <1>2, <1>3

(* A run that writes SENT, and a run that dies. *)
LEMMA EndStep ==
  ASSUME IInv, NEW w \in work, Finish(w) \/ SenderDies(w)
  PROVE  IInv'
<1>1. CASE Finish(w)
  <2>1. deaths' \in 0 .. MaxDeaths
    BY <1>1 DEF Finish, past, IInv, TypeOK
  <2> QED
    BY <1>1, <2>1, LeaveStep DEF Finish, past
<1>2. CASE SenderDies(w)
  <2>1. deaths' \in 0 .. MaxDeaths
    BY <1>2, CampaignBounds DEF SenderDies, IInv, TypeOK
  <2> QED
    BY <1>2, <2>1, LeaveStep DEF SenderDies, rows
<1> QED
  BY <1>1, <1>2

LEMMA Step == IInv /\ [Next]_vars => IInv'
<1> SUFFICES ASSUME IInv, [Next]_vars
             PROVE  IInv'
  OBVIOUS
<1>1. CASE UNCHANGED vars
  BY <1>1 DEF vars, IInv, TypeOK, NobodyMailedTwice, LogIsTrue, RowsOwned, WithdrawalHonoured,
     WithdrawnNotChecked, SentMeansDrained, StartedOnce, Remaining, InStatus
<1>2. CASE \/ \E g \in Guest : OptIn(g) \/ OptOut(g)
           \/ \E n \in noting : SaveGuest(n)
           \/ \E e \in Editor, g \in Guest : LoadGuest(e, g)
           \/ \E e \in Editor : LoadCampaign(e)
  BY <1>2, ConsentStep
<1>3. CASE \E matching \in SUBSET Guest : StartCampaign(matching)
  BY <1>3, StartStep
<1>4. CASE Cancel \/ \E e \in Editor : SaveCampaign(e)
  BY <1>4, StatusStep
<1>5. CASE \E s \in Sender : Begin(s)
  BY <1>5, BeginStep
<1>6. CASE \E w \in work : Proceed(w) \/ SenderDies(w)
  BY <1>6, ClaimStep, CheckStep, MailStep, RecordStep, CountStep, EndStep DEF Proceed
<1> QED
  BY <1>1, <1>2, <1>3, <1>4, <1>5, <1>6 DEF Next

LEMMA Invariance == Spec => []IInv
<1>1. Init => IInv
  BY InitInv
<1> QED
  BY <1>1, Step, PTL DEF Spec

-----------------------------------------------------------------------------
(* The theorems *)

(* Every table keeps its shape, and what ties the runs to their rows holds.  *)
THEOREM QueueConsistent == Spec => []IInv
  BY Invariance

(* No guest is reached twice by a campaign, however many runs overlap or     *)
(* die and however often it is put back to draft and started again.          *)
THEOREM OneMailPerGuest == Spec => []NobodyMailedTwice
<1>1. IInv => NobodyMailedTwice
  BY DEF IInv
<1> QED
  BY <1>1, Invariance, PTL

(* The send log never claims a mail that did not go out, nor queues a guest  *)
(* who was reached.                                                          *)
THEOREM LogNeverLies == Spec => []LogIsTrue
<1>1. IInv => LogIsTrue
  BY DEF IInv
<1> QED
  BY <1>1, Invariance, PTL

(* Opting out while queued is enough not to be mailed.                       *)
THEOREM OptOutHeard == Spec => []WithdrawalHonoured
<1>1. IInv => WithdrawalHonoured
  BY DEF IInv
<1> QED
  BY <1>1, Invariance, PTL

(* A campaign marked as sent has nothing left in its queue, as long as no    *)
(* form was saved over it after it was started.                              *)
THEOREM SentIsDrained == Spec => []SentMeansDrained
<1>1. IInv => SentMeansDrained
  BY DEF IInv
<1> QED
  BY <1>1, Invariance, PTL
=============================================================================
