---------------------------- MODULE FlowAuthoring ----------------------------
(***************************************************************************)
(* Owners editing one questionnaire in several tabs (the portal's Editor   *)
(* and ConfigurableEditor, local harness): the draft is loaded, edited,    *)
(* saved under the revision it was loaded at and published from storage.   *)
(* A call is awaited with the fields disabled; its answer may be lost, and *)
(* the tab may be left while the server still works on it.                 *)
(***************************************************************************)
EXTENDS Integers, Sequences, FiniteSets

CONSTANTS
  Tabs,          \* the editors open at once
  Docs,          \* what a questionnaire can say: its name, service and questions
  MaxRevision, MaxVersions, MaxOrphans

ASSUME AuthoringAssumption ==
  MaxRevision \in Nat /\ MaxVersions \in Nat /\ MaxOrphans \in Nat

VARIABLES
  draft,         \* flow_drafts: [revision, doc]; revision 0 before the first save
  published,     \* flow_versions: the docs, one installation each
  editor,        \* the state of each tab
  awaited,       \* the call a tab awaits
  orphans        \* the calls of tabs that were left

authoring == <<draft, published, editor, awaited, orphans>>

NoDoc == "none"
NoCall == [op |-> "none"]
\* base is the document the tab last took from storage, or stored there.
Closed == [doc |-> NoDoc, revision |-> 0, base |-> NoDoc, dirty |-> FALSE, hosted |-> 0]

AuthoringInit ==
  /\ draft = [revision |-> 0, doc |-> NoDoc]
  /\ published = << >>
  /\ editor = [t \in Tabs |-> Closed]
  /\ awaited = [t \in Tabs |-> NoCall]
  /\ orphans = {}

Busy(t) == awaited[t] # NoCall

\* fresh: the random identifier of a new questionnaire is no other tab's.
FreshDoc(t, d) ==
  /\ draft.revision = 0 /\ orphans = {}
  /\ \A u \in Tabs : editor[u] = Closed /\ ~Busy(u)
  /\ editor' = [editor EXCEPT ![t] = [Closed EXCEPT !.doc = d, !.dirty = TRUE]]
  /\ UNCHANGED <<draft, published, awaited, orphans>>

\* As if the link of the last publication stayed.
Mutant_LinkStays(t, d) ==
  /\ ~Busy(t) /\ editor[t].doc # NoDoc
  /\ editor' = [editor EXCEPT ![t].doc = d, ![t].dirty = TRUE]
  /\ UNCHANGED <<draft, published, awaited, orphans>>

\* edit, choose, the moves and the name: what was published is no longer shown.
Edit(t, d) ==
  /\ ~Busy(t) /\ editor[t].doc # NoDoc
  /\ editor' = [editor EXCEPT ![t].doc = d, ![t].dirty = TRUE, ![t].hosted = 0]
  /\ UNCHANGED <<draft, published, awaited, orphans>>

Call(t, c) == ~Busy(t) /\ awaited' = [awaited EXCEPT ![t] = c]

Reload(t) ==
  /\ draft.revision > 0
  /\ Call(t, [stage |-> "sent", op |-> "load"])
  /\ UNCHANGED <<draft, published, editor, orphans>>

\* save: enabled once something changed; it sends the revision the tab has.
Save(t) ==
  /\ editor[t].dirty
  /\ Call(t, [stage |-> "sent", op |-> "save", expected |-> editor[t].revision,
              doc |-> editor[t].doc, base |-> editor[t].base])
  /\ UNCHANGED <<draft, published, editor, orphans>>

\* publish: enabled when nothing is unsaved.
Publish(t) ==
  /\ ~editor[t].dirty /\ editor[t].revision > 0
  /\ Call(t, [stage |-> "sent", op |-> "publish", expected |-> editor[t].revision])
  /\ UNCHANGED <<draft, published, editor, orphans>>

\* As if a save took the row whatever its revision.
Mutant_SaveAnyway(c) ==
  /\ c.op = "save" /\ c.stage = "sent" /\ draft.revision < MaxRevision
  /\ draft' = [revision |-> draft.revision + 1, doc |-> c.doc]
  /\ UNCHANGED published

\* save_bound_flow_draft, save_configurable_flow_draft: the update takes the
\* row of the expected revision or none, and an insert finds no row.
Stores(c) ==
  /\ c.op = "save" /\ c.stage = "sent" /\ draft.revision < MaxRevision
  /\ c.expected = draft.revision
  /\ draft' = [revision |-> draft.revision + 1, doc |-> c.doc]
  /\ UNCHANGED published

\* publish_bound_flow, publish_configurable_flow: the stored draft becomes a
\* version that never changes, with an installation of its own.
Publishes(c) ==
  /\ c.op = "publish" /\ c.stage = "sent" /\ Len(published) < MaxVersions
  /\ c.expected = draft.revision
  /\ published' = Append(published, draft.doc)
  /\ UNCHANGED draft

\* flow_owner_draft, get_configurable_flow_draft.
Shows(c) == c.op = "load" /\ c.stage = "sent" /\ UNCHANGED <<draft, published>>

Served(c) == Stores(c) \/ Publishes(c) \/ Shows(c)
WithAnswer(c) ==
  [stage |-> "answered", op |-> c.op,
   revision |-> draft'.revision, shown |-> draft'.doc, version |-> Len(published')]

ServerAnswers(t) ==
  /\ Busy(t)
  /\ Served(awaited[t])
  /\ awaited' = [awaited EXCEPT ![t] = WithAnswer(awaited[t])]
  /\ UNCHANGED <<editor, orphans>>

ServeOrphan(c) ==
  /\ Served(c)
  /\ orphans' = orphans \ {c}
  /\ UNCHANGED <<editor, awaited>>

Returns(t) == awaited' = [awaited EXCEPT ![t] = NoCall]

\* What the server may still do for a tab that no longer waits for it.
GivenUp(t) ==
  LET c == awaited[t]
  IN IF c.op \in {"save", "publish"} /\ c.stage = "sent" THEN orphans \cup {c} ELSE orphans

\* The call was refused, never arrived, or its answer is lost: the tab says so
\* and keeps what it shows.
CallIsLost(t, late) ==
  /\ Busy(t)
  /\ Returns(t)
  /\ orphans' = IF late THEN GivenUp(t) ELSE orphans
  /\ Cardinality(orphans') <= MaxOrphans
  /\ UNCHANGED <<draft, published, editor>>

\* The answer arrives.
Loaded(t) ==
  /\ Busy(t) /\ awaited[t].op = "load" /\ awaited[t].stage = "answered"
  /\ LET d == awaited[t].shown
     IN editor' = [editor EXCEPT ![t] = [doc |-> d, revision |-> awaited[t].revision,
                                         base |-> d, dirty |-> FALSE, hosted |-> 0]]
  /\ Returns(t)
  /\ UNCHANGED <<draft, published, orphans>>

Saved(t) ==
  /\ Busy(t) /\ awaited[t].op = "save" /\ awaited[t].stage = "answered"
  /\ editor' = [editor EXCEPT ![t].revision = awaited[t].revision,
                              ![t].base = awaited[t].shown, ![t].dirty = FALSE]
  /\ Returns(t)
  /\ UNCHANGED <<draft, published, orphans>>

PublishedNow(t) ==
  /\ Busy(t) /\ awaited[t].op = "publish" /\ awaited[t].stage = "answered"
  /\ editor' = [editor EXCEPT ![t].hosted = awaited[t].version]
  /\ Returns(t)
  /\ UNCHANGED <<draft, published, orphans>>

\* The versions' tabs and signing out are not disabled: the editor goes, and
\* its generation with it.
Leave(t, late) ==
  /\ editor[t] # Closed \/ Busy(t)
  /\ editor' = [editor EXCEPT ![t] = Closed]
  /\ Returns(t)
  /\ orphans' = IF late THEN GivenUp(t) ELSE orphans
  /\ Cardinality(orphans') <= MaxOrphans
  /\ UNCHANGED <<draft, published>>

AuthoringNext ==
  \/ \E t \in Tabs :
       \/ \E d \in Docs : FreshDoc(t, d) \/ Edit(t, d)
       \/ Reload(t) \/ Save(t) \/ Publish(t) \/ ServerAnswers(t)
       \/ Loaded(t) \/ Saved(t) \/ PublishedNow(t)
       \/ \E late \in BOOLEAN : CallIsLost(t, late) \/ Leave(t, late)
  \/ \E c \in orphans : ServeOrphan(c)
AuthoringSpec == AuthoringInit /\ [][AuthoringNext]_authoring

-----------------------------------------------------------------------------
\* What the portal holds is what is stored at the revision it names, and a link it
\* shows leads to the questionnaire it shows.
EditorIsCurrent ==
  \A t \in Tabs :
    /\ editor[t].revision > 0 /\ editor[t].revision = draft.revision
         => editor[t].base = draft.doc
    /\ editor[t].hosted > 0 => published[editor[t].hosted] = editor[t].doc

\* A save replaces the document its owner had before them, never one that
\* another tab stored since, however late the call is served.
NothingOverwritten ==
  [][draft'.doc # draft.doc =>
       \E c \in orphans \cup {awaited[t] : t \in Tabs} :
         /\ c.op = "save" /\ c.stage = "sent"
         /\ c.doc = draft'.doc /\ c.base = draft.doc]_authoring
=============================================================================
