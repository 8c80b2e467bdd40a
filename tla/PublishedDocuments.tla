------------------------- MODULE PublishedDocuments -------------------------
(***************************************************************************)
(* What the readers of a collection may rely on, without stores, workers   *)
(* and locks: a document is published one whole generation at a time, the  *)
(* published content is what the splitter makes of one text under the      *)
(* collection's present configuration, it never changes in place, and a    *)
(* generation that was withdrawn is never published again.                 *)
(***************************************************************************)
EXTENDS Naturals

CONSTANTS Docs, Texts, Configs, Size, NoContent

VARIABLES config, phase, gen, content

vars == <<config, phase, gen, content>>

Split(text, c) == [text : {text}, config : {c}, index : 1 .. Size[text][c]]

Whole(text) == [text |-> text, chunks |-> Split(text, config)]

Live(d) == phase[d] \in {"pending", "published", "failed"}

Init ==
    /\ config \in Configs
    /\ phase = [d \in Docs |-> "absent"]
    /\ gen = [d \in Docs |-> 0]
    /\ content = [d \in Docs |-> NoContent]

Create(d) ==
    /\ phase[d] = "absent"
    /\ phase' = [phase EXCEPT ![d] = "pending"]
    /\ gen' = [gen EXCEPT ![d] = 1]
    /\ UNCHANGED <<config, content>>

Publish(d) ==
    /\ phase[d] = "pending"
    /\ phase' = [phase EXCEPT ![d] = "published"]
    /\ \E text \in Texts : content' = [content EXCEPT ![d] = Whole(text)]
    /\ UNCHANGED <<config, gen>>

Fail(d) ==
    /\ phase[d] = "pending"
    /\ phase' = [phase EXCEPT ![d] = "failed"]
    /\ UNCHANGED <<config, gen, content>>

\* A new generation of every document of D replaces the published one.
Renew(D) ==
    /\ phase' = [d \in Docs |-> IF d \in D THEN "pending" ELSE phase[d]]
    /\ gen' = [d \in Docs |-> IF d \in D THEN gen[d] + 1 ELSE gen[d]]
    /\ content' = [d \in Docs |-> IF d \in D THEN NoContent ELSE content[d]]

RenewOne(d) == Live(d) /\ Renew({d}) /\ UNCHANGED config

Reconfigure(c) == config' = c /\ Renew({d \in Docs : Live(d)})

Delete(d) ==
    /\ Live(d)
    /\ phase' = [phase EXCEPT ![d] = "deleted"]
    /\ content' = [content EXCEPT ![d] = NoContent]
    /\ UNCHANGED <<config, gen>>

Next ==
    \/ \E d \in Docs : \/ Create(d) \/ Publish(d) \/ Fail(d)
                       \/ RenewOne(d) \/ Delete(d)
    \/ \E c \in Configs : Reconfigure(c)

Spec == Init /\ [][Next]_vars
=============================================================================
