------------------------------- MODULE Alerts -------------------------------
(***************************************************************************)
(* The way of an alert around a blocked network: the engine appends it to  *)
(* a file of the day (src/src/ops/alerts.py), the files are pushed to a    *)
(* bucket and pulled from it (src/scripts/sync_r2.py), and a forwarder on  *)
(* another host sends what is newer than its marker                        *)
(* (src/scripts/forward_alerts.py).                                        *)
(*                                                                         *)
(* Alerts are numbered in the order of their timestamps, DaySpan of them   *)
(* to a day.  Nothing is fsynced: a power loss may tear the last line, and *)
(* the next append goes on where it ends.                                  *)
(***************************************************************************)
EXTENDS Integers, Sequences, FiniteSetsExt, SequencesExt

CONSTANTS
  DaySpan,                          \* alerts to a day
  MaxAlerts, MaxLosses, MaxDeaths   \* bounds of the counters

ASSUME AlertsAssumption == {DaySpan, MaxAlerts} \subseteq Nat \ {0}

VARIABLES
  raised,   \* alerts so far
  vps, bucket, local,   \* the files of the days, in the three places
  marker,   \* .alerts_forwarded: the newest alert dealt with, 0 when empty or missing
  run,      \* the forwarder: what it does next, the alerts left to send, its new marker
  sent,     \* history: how often each alert reached the channel
  failed,   \* history: alerts of which a send failed
  losses, deaths

vars == <<raised, vps, bucket, local, marker, run, sent, failed, losses, deaths>>

Ids  == 1 .. MaxAlerts
Day(a) == (a - 1) \div DaySpan
Days == 0 .. Day(MaxAlerts)
Idle == [at |-> "idle", todo |-> {}, newest |-> 0]

-----------------------------------------------------------------------------
(* The VPS.  A line is a set of alerts, and open until its newline.        *)

\* append_alert_file, and every other channel blocked.
Raise ==
  /\ raised < MaxAlerts /\ raised' = raised + 1
  /\ LET a == raised + 1  file == vps[Day(a)] IN
     vps' = [vps EXCEPT ![Day(a)] =
               IF file # <<>> /\ Last(file).open
               THEN Append(Front(file), [ids |-> Last(file).ids \union {a}, open |-> FALSE])
               ELSE Append(file, [ids |-> {a}, open |-> FALSE])]
  /\ UNCHANGED <<bucket, local, marker, run, sent, failed, losses, deaths>>

\* The last line is torn, or gone.
PowerLoss ==
  /\ raised > 0 /\ losses < MaxLosses /\ losses' = losses + 1
  /\ LET d == Day(raised)  file == vps[d] IN
     /\ file # <<>>
     /\ vps' \in {[vps EXCEPT ![d] = Front(file)],
                  [vps EXCEPT ![d] = Append(Front(file), [Last(file) EXCEPT !.open = TRUE])]}
  /\ UNCHANGED <<raised, bucket, local, marker, run, sent, failed, deaths>>

\* push and pull copy one file after the other, in any order.
Push(d) ==
  /\ bucket[d] # vps[d] /\ bucket' = [bucket EXCEPT ![d] = vps[d]]
  /\ UNCHANGED <<raised, vps, local, marker, run, sent, failed, losses, deaths>>

Pull(d) ==
  /\ local[d] # bucket[d] /\ local' = [local EXCEPT ![d] = bucket[d]]
  /\ UNCHANGED <<raised, vps, bucket, marker, run, sent, failed, losses, deaths>>

-----------------------------------------------------------------------------
(* The forwarder.                                                          *)

\* The lines that parse.
Readable(files) ==
  {a \in Ids : \E d \in Days : \E n \in DOMAIN files[d] :
                 files[d][n] = [ids |-> {a}, open |-> FALSE]}

\* Mutant: a line that does not parse loses its file.
NewOfCleanFiles ==
  {a \in Readable([d \in Days |->
                     IF \A n \in DOMAIN local[d] : \E i \in Ids : local[d][n] = [ids |-> {i}, open |-> FALSE]
                     THEN local[d] ELSE <<>>]) : a > marker}

New == {a \in Readable(local) : a > marker}

Start ==
  /\ run = Idle /\ New # {}
  /\ run' = [at |-> "send", todo |-> New, newest |-> Max(New)]
  /\ UNCHANGED <<raised, vps, bucket, local, marker, sent, failed, losses, deaths>>

\* Mutant: the first that fails ends the run, which marks all the same.
SendUntilFailure ==
  /\ run.at = "send" /\ run.todo # {}
  /\ LET a == Min(run.todo) IN
     \/ /\ sent' = [sent EXCEPT ![a] = @ + 1] /\ run' = [run EXCEPT !.todo = @ \ {a}]
        /\ UNCHANGED failed
     \/ /\ failed' = failed \union {a} /\ run' = [run EXCEPT !.todo = {}]
        /\ UNCHANGED sent
  /\ UNCHANGED <<raised, vps, bucket, local, marker, losses, deaths>>

\* One by one, the oldest first; a send that fails is counted, and not tried again.
Send ==
  /\ run.at = "send" /\ run.todo # {}
  /\ LET a == Min(run.todo) IN
     /\ run' = [run EXCEPT !.todo = @ \ {a}]
     /\ \/ sent' = [sent EXCEPT ![a] = @ + 1] /\ UNCHANGED failed
        \/ failed' = failed \union {a} /\ UNCHANGED sent
  /\ UNCHANGED <<raised, vps, bucket, local, marker, losses, deaths>>

\* write_text opens the marker, which empties it, and then writes.
EmptyMarker ==
  /\ run.at = "send" /\ run.todo = {}
  /\ marker' = 0 /\ run' = [run EXCEPT !.at = "mark"]
  /\ UNCHANGED <<raised, vps, bucket, local, sent, failed, losses, deaths>>

WriteMarker ==
  /\ run.at = "mark"
  /\ marker' = run.newest /\ run' = Idle
  /\ UNCHANGED <<raised, vps, bucket, local, sent, failed, losses, deaths>>

Die ==
  /\ run # Idle /\ deaths < MaxDeaths /\ deaths' = deaths + 1 /\ run' = Idle
  /\ UNCHANGED <<raised, vps, bucket, local, marker, sent, failed, losses>>

-----------------------------------------------------------------------------

Nothing == [d \in Days |-> <<>>]

Init ==
  /\ raised = 0 /\ vps = Nothing /\ bucket = Nothing /\ local = Nothing
  /\ marker = 0 /\ run = Idle /\ sent = [a \in Ids |-> 0] /\ failed = {}
  /\ losses = 0 /\ deaths = 0

Forwarder == Start \/ Send \/ EmptyMarker \/ WriteMarker

Next ==
  \/ Raise \/ PowerLoss \/ Forwarder \/ Die
  \/ \E d \in Days : Push(d) \/ Pull(d)

Spec == Init /\ [][Next]_vars

\* The tasks that push, pull and forward are scheduled.
FairSpec ==
  Spec /\ WF_vars(Forwarder) /\ \A d \in Days : WF_vars(Push(d)) /\ WF_vars(Pull(d))

-----------------------------------------------------------------------------
(* Properties.                                                             *)

\* "Tracking a marker so each alert is sent once" (forward_alerts.py), in as far as it
\* is: an alert is repeated only after the forwarder died, once for each death; and the
\* marker leaves one behind only if its send failed, a line was torn, or it is older than
\* midnight, when the files of two days are copied one after the other.
SentOnce ==
  \A a \in Ids :
    /\ sent[a] <= 1 + deaths
    /\ a <= marker => sent[a] > 0 \/ a \in failed \/ Day(a) < Day(marker) \/ losses > 0

\* Whatever fails to be sent, the forwarder comes to be done with every alert that can
\* still be read on the VPS.
CatchesUp == \A a \in Ids : a \in Readable(vps) ~> (a <= marker \/ a \notin Readable(vps))
=============================================================================
