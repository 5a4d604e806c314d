---------------------------- MODULE StreamSession ----------------------------
(***************************************************************************)
(* What the sender's controller promises its user and the phone: one       *)
(* stream at a time, only while the user wants one, and packets of no      *)
(* stream but that.  Tasks, probes, routes and the pairing are not seen    *)
(* here.  Streams are numbered in the order in which they begin; a number  *)
(* may be left out.                                                        *)
(***************************************************************************)
EXTENDS Naturals

VARIABLES wanted,   \* the user asked for a stream, not to stop since
          sending,  \* the menu bar offers Stop and Mute
          stream,   \* number of the stream there is, 0 for none
          latest,   \* the highest number used
          sender    \* number of the stream the last packet came from, 0 for none

vars == <<wanted, sending, stream, latest, sender>>

Init == /\ wanted = FALSE
        /\ sending = FALSE
        /\ stream = 0
        /\ latest = 0
        /\ sender = 0

Ask == /\ ~sending
       /\ wanted' = TRUE
       /\ UNCHANGED <<sending, stream, latest, sender>>

\* Ends everything at once, for good until the user asks again.
Stop == /\ wanted' = FALSE
        /\ sending' = FALSE
        /\ stream' = 0
        /\ latest' = latest + 1
        /\ UNCHANGED sender

Begin == /\ wanted
         /\ stream = 0
         /\ sending' = TRUE
         /\ latest' = latest + 1
         /\ stream' = latest + 1
         /\ UNCHANGED <<wanted, sender>>

\* The stream is given up for one to the phone's new address.
Break == /\ stream # 0
         /\ stream' = 0
         /\ UNCHANGED <<wanted, sending, latest, sender>>

\* The stream ended of itself, or no other came after a break.
End == /\ sending
       /\ sending' = FALSE
       /\ stream' = 0
       /\ UNCHANGED <<wanted, latest, sender>>

Send == /\ sending
        /\ stream # 0
        /\ sender' = stream
        /\ UNCHANGED <<wanted, sending, stream, latest>>

Next == Ask \/ Stop \/ Begin \/ Break \/ End \/ Send

Spec == Init /\ [][Next]_vars

=============================================================================
