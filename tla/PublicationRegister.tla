------------------------ MODULE PublicationRegister ------------------------
(***************************************************************************)
(* What the delivery of publications promises to the visitors of a site:   *)
(* the content shown only moves to publications that were made, and only   *)
(* to newer ones, however often and in whichever order they arrive.  A     *)
(* restore of the site's database brings back what its backup showed.      *)
(***************************************************************************)
EXTENDS Naturals

VARIABLES
  published,  \* the publication sequence, 0 before the first publication
  shown,      \* the publication the site shows, 0 for none
  saved       \* the publication the backup of the site shows

Init == published = 0 /\ shown = 0 /\ saved = 0

Publish == published' = published + 1 /\ UNCHANGED <<shown, saved>>
Show == /\ shown' \in (shown + 1)..published
        /\ UNCHANGED <<published, saved>>
Save == saved' = shown /\ UNCHANGED <<published, shown>>
Restore == shown' = saved /\ UNCHANGED <<published, saved>>

Next == Publish \/ Show \/ Save \/ Restore

Spec == Init /\ [][Next]_<<published, shown, saved>>
=============================================================================
