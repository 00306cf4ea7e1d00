----------------------------- MODULE Campaigns -----------------------------
(***************************************************************************)
(* An email campaign from draft to sent, and the consent of the guests it  *)
(* goes to (campaigns/, guests/services.py, the dashboard's forms).        *)
(*                                                                         *)
(* start_campaign is a transaction.  The cron command that sends is not:   *)
(* every statement of its loop is a step of a Sender, ticks of cron may    *)
(* overlap, and a tick may die anywhere.  The dashboard's forms load a     *)
(* row, validate, and save all its columns: two steps of an Editor.        *)
(*                                                                         *)
(* The send rows of different campaigns have nothing in common, so there   *)
(* is one campaign.  Its text is left out.                                 *)
(***************************************************************************)
EXTENDS Naturals, FiniteSets

CONSTANTS Guest,        \* GuestAccount rows of the theater
          Sender,       \* slots for runs of send_campaign_emails
          Editor,       \* slots for requests that save a dashboard form
          BatchSize,    \* CAMPAIGN_BATCH_SIZE
          MaxDeaths     \* bound: how many runs of the command die

ASSUME FiniteAudience == IsFiniteSet(Guest)
ASSUME CampaignBounds == BatchSize \in Nat \ {0} /\ MaxDeaths \in Nat

CampaignStatus == {"draft", "sending", "sent", "cancelled"}
SendStatus     == {"none", "pending", "sending", "sent", "failed", "skipped"}

(* A run of the command: the rows of its batch it has not come to, and the   *)
(* row it has claimed, if any.                                               *)
Work == [sender : Sender, step : {"claim", "check", "skip", "mail", "sent", "failed", "finish"},
         todo : SUBSET Guest, row : {{}} \cup {{g} : g \in Guest}]

(* A form between loading a guest's row and saving it. *)
Note == [editor : Editor, guest : Guest, optIn : BOOLEAN]

VARIABLES campaign,     \* EmailCampaign.status
          send,         \* CampaignSend.status by guest, "none" if there is no row
          optIn,        \* the guests with marketing_opt_in
          mailed,       \* how often the campaign reached each guest
          work,         \* the runs of the command under way
          editing,      \* campaign forms that have loaded the draft
          noting,       \* audience forms that have loaded a guest
          withdrawn,    \* guests who opted out while queued, and stayed out
          reverted,     \* a campaign form was saved over a started campaign
          deaths        \* how many runs have died

vars == <<campaign, send, optIn, mailed, work, editing, noting, withdrawn, reverted, deaths>>

rows  == <<campaign, send>>
forms == <<editing, noting>>
past  == <<withdrawn, reverted, deaths>>

InStatus(S) == {g \in Guest : send[g] \in S}
Pending     == InStatus({"pending"})
Remaining   == InStatus({"pending", "sending"})

Init == /\ campaign = "draft"
        /\ send = [g \in Guest |-> "none"]
        /\ optIn \in SUBSET Guest
        /\ mailed = [g \in Guest |-> 0]
        /\ work = {} /\ editing = {} /\ noting = {}
        /\ withdrawn = {} /\ reverted = FALSE /\ deaths = 0

-----------------------------------------------------------------------------
(* Guests.  Each setter reads the flag and then writes that column alone;    *)
(* whatever comes in between, it has the effect of one of the two moments.   *)

(* The checkout's tick, the portal's toggle, the Resubscribe button. *)
OptIn(g) == /\ optIn' = optIn \cup {g}
            /\ withdrawn' = withdrawn \ {g}
            /\ UNCHANGED <<rows, mailed, work, forms, reverted, deaths>>

(* The portal's toggle, the link in the footer, the one-click POST. *)
OptOut(g) == /\ optIn' = optIn \ {g}
             /\ withdrawn' = withdrawn \cup ({g} \cap Pending)
             /\ UNCHANGED <<rows, mailed, work, forms, reverted, deaths>>

-----------------------------------------------------------------------------
(* Staff *)

(* segment_guests: of the guests that match the campaign's segment and have  *)
(* an address, those who consent.                                            *)
Segment(matching) == matching \cap optIn

(* Mutant: the rows are written anew. *)
QueueAnew(recipients) ==
    [g \in Guest |-> IF g \in recipients THEN "pending" ELSE send[g]]

(* bulk_create(ignore_conflicts=True): a guest with a row keeps it. *)
Queue(recipients) ==
    [g \in Guest |-> IF g \in recipients /\ send[g] = "none" THEN "pending" ELSE send[g]]

(* Mutant: an empty campaign waits for the sender. *)
StartedAlways(recipients) == "sending"

(* An empty segment is finished at once, as no sender would ever touch it. *)
Started(recipients) == IF recipients = {} THEN "sent" ELSE "sending"

StartCampaign(matching) ==
    /\ campaign = "draft"
    /\ campaign' = Started(Segment(matching))
    /\ send' = Queue(Segment(matching))
    /\ UNCHANGED <<optIn, mailed, work, forms, past>>

(* CANCELLED is set in the admin only. *)
Cancel == /\ campaign \in {"draft", "sending"}
          /\ campaign' = "cancelled"
          /\ UNCHANGED <<send, optIn, mailed, work, forms, past>>

Free(e) == e \notin editing /\ \A n \in noting : n.editor # e

(* EmailCampaignUpdateView looks at the status when it loads the row. *)
LoadCampaign(e) == /\ campaign = "draft"
                   /\ Free(e)
                   /\ editing' = editing \cup {e}
                   /\ UNCHANGED <<rows, optIn, mailed, work, noting, past>>

SaveCampaign(e) == /\ e \in editing
                   /\ campaign' = "draft"
                   /\ reverted' = (reverted \/ campaign # "draft")
                   /\ editing' = editing \ {e}
                   /\ UNCHANGED <<send, optIn, mailed, work, noting, withdrawn, deaths>>

(* audience_detail: tags and notes, saved with the rest of the row. *)
LoadGuest(e, g) == /\ Free(e)
                   /\ noting' = noting \cup {[editor |-> e, guest |-> g, optIn |-> g \in optIn]}
                   /\ UNCHANGED <<rows, optIn, mailed, work, editing, past>>

SaveGuest(n) == /\ n \in noting
                /\ optIn' = IF n.optIn THEN optIn \cup {n.guest} ELSE optIn \ {n.guest}
                /\ withdrawn' = withdrawn \ optIn'
                /\ noting' = noting \ {n}
                /\ UNCHANGED <<rows, mailed, work, editing, reverted, deaths>>

-----------------------------------------------------------------------------
(* The command send_campaign_emails *)

Advance(w, next) == work' = (work \ {w}) \cup {next}

(* A run takes the first rows that are pending, in the order of their keys,  *)
(* which is left open here.                                                  *)
Batch == {b \in SUBSET Pending : \/ Cardinality(b) = BatchSize
                                 \/ Cardinality(b) < BatchSize /\ b = Pending}

Begin(s) ==
    /\ \A w \in work : w.sender # s
    /\ campaign = "sending" /\ Pending # {}
    /\ \E b \in Batch :
          work' = work \cup {[sender |-> s, step |-> "claim", todo |-> b, row |-> {}]}
    /\ UNCHANGED <<rows, optIn, mailed, forms, past>>

(* The conditional update that decides which run a row belongs to. *)
Claimable(g) == send[g] = "pending"

Claim(w) ==
    /\ w \in work /\ w.step = "claim"
    /\ \E g \in w.todo :
          IF Claimable(g)
          THEN /\ send' = [send EXCEPT ![g] = "sending"]
               /\ Advance(w, [w EXCEPT !.step = "check", !.todo = @ \ {g}, !.row = {g}])
          ELSE /\ Advance(w, [w EXCEPT !.todo = @ \ {g}])
               /\ UNCHANGED send
    /\ UNCHANGED <<campaign, optIn, mailed, forms, past>>

(* Mutant: the consent of the moment the row was queued is good enough. *)
StillConsentsAsQueued(w) == TRUE

(* The guest's row is read again for every mail. *)
StillConsents(w) == w.row \subseteq optIn

CheckConsent(w) ==
    /\ w \in work /\ w.step = "check"
    /\ Advance(w, [w EXCEPT !.step = IF StillConsents(w) THEN "mail" ELSE "skip"])
    /\ UNCHANGED <<rows, optIn, mailed, forms, past>>

Reach(w) == mailed' = [g \in Guest |-> IF g \in w.row THEN mailed[g] + 1 ELSE mailed[g]]

SendMail(w) == /\ w \in work /\ w.step = "mail"
               /\ Reach(w)
               /\ Advance(w, [w EXCEPT !.step = "sent"])
               /\ UNCHANGED <<rows, optIn, forms, past>>

(* The mail host raises.  It may have taken the mail before. *)
SendMailRaises(w) == /\ w \in work /\ w.step = "mail"
                     /\ Reach(w) \/ UNCHANGED mailed
                     /\ Advance(w, [w EXCEPT !.step = "failed"])
                     /\ UNCHANGED <<rows, optIn, forms, past>>

Outcome(w) == CASE w.step = "skip" -> "skipped" [] w.step = "sent" -> "sent"
                [] w.step = "failed" -> "failed"

Record(w) ==
    /\ w \in work /\ w.step \in {"skip", "sent", "failed"}
    /\ send' = [g \in Guest |-> IF g \in w.row THEN Outcome(w) ELSE send[g]]
    /\ Advance(w, [w EXCEPT !.step = "claim", !.row = {}])
    /\ UNCHANGED <<campaign, optIn, mailed, forms, past>>

(* Mutant: rows that other runs are at are not waited for. *)
DrainedOfPending == Pending = {}

(* After the loop: is anything left of the campaign this run touched? *)
Drained == Remaining = {}

CountRemaining(w) ==
    /\ w \in work /\ w.step = "claim" /\ w.todo = {}
    /\ work' = IF Drained THEN (work \ {w}) \cup {[w EXCEPT !.step = "finish"]} ELSE work \ {w}
    /\ UNCHANGED <<rows, optIn, mailed, forms, past>>

Finish(w) ==
    /\ w \in work /\ w.step = "finish"
    /\ campaign' = IF campaign = "sending" THEN "sent" ELSE campaign
    /\ work' = work \ {w}
    /\ UNCHANGED <<send, optIn, mailed, forms, past>>

SenderDies(w) == /\ w \in work /\ deaths < MaxDeaths
                 /\ work' = work \ {w}
                 /\ deaths' = deaths + 1
                 /\ UNCHANGED <<rows, optIn, mailed, forms, withdrawn, reverted>>

Proceed(w) == \/ Claim(w) \/ CheckConsent(w) \/ SendMail(w) \/ SendMailRaises(w)
              \/ Record(w) \/ CountRemaining(w) \/ Finish(w)

-----------------------------------------------------------------------------
Next == \/ \E g \in Guest : OptIn(g) \/ OptOut(g)
        \/ \E matching \in SUBSET Guest : StartCampaign(matching)
        \/ Cancel
        \/ \E e \in Editor : LoadCampaign(e) \/ SaveCampaign(e)
        \/ \E e \in Editor, g \in Guest : LoadGuest(e, g)
        \/ \E n \in noting : SaveGuest(n)
        \/ \E s \in Sender : Begin(s)
        \/ \E w \in work : Proceed(w) \/ SenderDies(w)

Spec == Init /\ [][Next]_vars

(* Cron starts a run every other minute, and a run that does not die goes on. *)
FairSpec == /\ Spec
            /\ WF_vars(\E s \in Sender : Begin(s))
            /\ \A s \in Sender : WF_vars(\E w \in work : w.sender = s /\ Proceed(w))

-----------------------------------------------------------------------------
(* Correctness *)

(* The tables keep their shape, and the runs, one to a slot, too. *)
TypeOK ==
    /\ campaign \in CampaignStatus
    /\ send \in [Guest -> SendStatus]
    /\ optIn \subseteq Guest
    /\ mailed \in [Guest -> Nat]
    /\ work \subseteq Work
    /\ \A w1, w2 \in work : w1.sender = w2.sender => w1 = w2
    /\ editing \subseteq Editor /\ noting \subseteq Note
    /\ withdrawn \subseteq Guest /\ reverted \in BOOLEAN /\ deaths \in 0 .. MaxDeaths

(* "One send per person per campaign" (campaigns/models.py), whatever runs   *)
(* overlap or die, and however often the campaign is put back to draft and   *)
(* started again.                                                            *)
NobodyMailedTwice == \A g \in Guest : mailed[g] <= 1

(* The rows are "the audit log of what happened per address": one that says  *)
(* sent was, and one that is queued or skipped was not.                      *)
LogIsTrue ==
    \A g \in Guest : /\ send[g] = "sent" => mailed[g] = 1
                     /\ send[g] \in {"none", "pending", "skipped"} => mailed[g] = 0

(* A campaign is SENT "once none remain": nothing is left in the queue of a  *)
(* campaign no sender will look at again.  (A form saved over a started      *)
(* campaign can leave something.)                                            *)
SentMeansDrained == campaign = "sent" /\ ~reverted => Remaining = {}

(* A guest who opted out while queued, and stayed out, is not mailed: "a      *)
(* guest may have unsubscribed between when this campaign was queued and     *)
(* now" (send_campaign_emails.py).                                           *)
WithdrawalHonoured == \A g \in withdrawn : mailed[g] = 0

(* A campaign that was started ends, unless a run dies or a form puts it     *)
(* back to draft: a run that dies leaves the row it had claimed as it is.    *)
CampaignEnds ==
    [](deaths = 0 /\ ~reverted) => (campaign = "sending" ~> campaign # "sending")

(* What the proofs add.  A run owns the row it has claimed, alone, and knows  *)
(* whether its guest has been reached; it has not gone past the check with a *)
(* guest who had withdrawn.  And until a form is saved over a started        *)
(* campaign, a draft has no rows and a run that finishes has found none left.*)
RowsOwned ==
    /\ \A w \in work : /\ w.row = {} <=> w.step \in {"claim", "finish"}
                      /\ \A g \in w.row :
                            /\ send[g] = "sending"
                            /\ (w.step \in {"check", "skip", "mail"} => mailed[g] = 0)
                            /\ (w.step = "sent" => mailed[g] = 1)
    /\ \A w1, w2 \in work : w1.row \cap w2.row # {} => w1 = w2

WithdrawnNotChecked ==
    /\ withdrawn \cap optIn = {}
    /\ \A w \in work : w.step \in {"mail", "sent", "failed"} => w.row \cap withdrawn = {}

StartedOnce ==
    ~reverted => /\ (campaign = "draft" => work = {} /\ \A g \in Guest : send[g] = "none")
                 /\ \A w \in work : w.step = "finish" => Remaining = {}

(* The inductive invariant of CampaignsProofs: overlapping runs and repeated *)
(* starts keep the queue, the log and the mail that went out in agreement.   *)
IInv == /\ TypeOK /\ NobodyMailedTwice /\ LogIsTrue /\ RowsOwned
        /\ WithdrawalHonoured /\ WithdrawnNotChecked /\ SentMeansDrained /\ StartedOnce

(* marketing_opt_in "is only ever flipped True by an explicit act"            *)
(* (guests/models.py), the guest's.                                          *)
ConsentIsGiven == [][\A g \in optIn' \ optIn : OptIn(g)]_vars
=============================================================================
