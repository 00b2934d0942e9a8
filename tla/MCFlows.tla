------------------------------- MODULE MCFlows -------------------------------
(***************************************************************************)
(* The flows' components, as MCLibrary: a behaviour is one of the          *)
(* component named by focus.                                               *)
(***************************************************************************)
EXTENDS FlowAuthoring, ConfigurableForm, HostedRequests, MediaLibrary, TLC

VARIABLE focus

\* FlowAuthoring: the tabs, and the documents, are interchangeable.
TabsAndDocs == Permutations(Tabs) \cup Permutations(Docs)

\* ConfigurableForm: a required question that shows two others, and a quantity.
Question(kind, required, choices, min, max) ==
  [kind |-> kind, required |-> required, choices |-> choices, min |-> min, max |-> max]
MCQuestions ==
  ("room" :> Question("single_choice", TRUE, {"large", "small"}, 0, 0)) @@
  ("extras" :> Question("multi_choice", FALSE, {"linen", "windows"}, 0, 0)) @@
  ("sets" :> Question("quantity", FALSE, {}, 1, 2))

\* MediaLibrary: three breakpoints, some above an image's width.
MCBreakpoints == ("thumbnail" :> 2) @@ ("card" :> 4) @@ ("hero" :> 9)

vars == <<focus, authoring, forming, hosting, mediating>>

Init ==
  /\ focus \in {"author", "form", "hosted", "media"}
  /\ AuthoringInit /\ FormInit /\ HostedInit /\ MediaInit

Next ==
  /\ UNCHANGED focus
  /\ \/ /\ focus = "author" /\ AuthoringNext
        /\ UNCHANGED <<forming, hosting, mediating>>
     \/ /\ focus = "form" /\ FormNext
        /\ UNCHANGED <<authoring, hosting, mediating>>
     \/ /\ focus = "hosted" /\ HostedNext
        /\ UNCHANGED <<authoring, forming, mediating>>
     \/ /\ focus = "media" /\ MediaNext
        /\ UNCHANGED <<authoring, forming, hosting>>

Spec == Init /\ [][Next]_vars
=============================================================================
