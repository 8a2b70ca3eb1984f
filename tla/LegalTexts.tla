----------------------------- MODULE LegalTexts -----------------------------
(***************************************************************************)
(* A legal document, its former versions and the versions people have      *)
(* agreed to (LegalDocument, LegalDocumentRevision and ConsentLog,         *)
(* services/legal.py).                                                     *)
(*                                                                         *)
(* The registration page and the profile link to the document.  The text a *)
(* person reads there is the current one; what the journal names is the    *)
(* version that is current when the form comes back.                       *)
(***************************************************************************)
EXTENDS Integers, FiniteSets

CONSTANTS
    People,      \* people who agree to the document
    Editors,     \* administrators who edit it
    MaxTexts,    \* texts that are ever written
    Overlap      \* whether two edits may overlap

VARIABLES
    document,    \* LegalDocument: its version and its text
    revisions,   \* LegalDocumentRevision
    texts,       \* number of texts written so far
    page,        \* document a person has on the screen, if any
    consents,    \* ConsentLog: who agreed to which version, having read what
    draft        \* document an editor has loaded to replace, if any

vars == <<document, revisions, texts, page, consents, draft>>

Document == [version : 1..MaxTexts, text : 1..MaxTexts]
Nothing  == [version |-> 0, text |-> 0]

\* ensure_default_legal_docs
Init ==
    /\ document = [version |-> 1, text |-> 1]
    /\ revisions = {}
    /\ texts = 1
    /\ page = [p \in People |-> Nothing]
    /\ consents = {}
    /\ draft = [e \in Editors |-> Nothing]

\* The page with the checkbox is opened and the document behind it is read.
Read(p) ==
    /\ page' = [page EXCEPT ![p] = document]
    /\ UNCHANGED <<document, revisions, texts, consents, draft>>

\* record_consent: the version comes from the table, not from the form.
Agree(p) ==
    /\ page[p] # Nothing
    /\ consents' = consents \cup
          {[who |-> p, version |-> document.version, read |-> page[p].text]}
    /\ page' = [page EXCEPT ![p] = Nothing]
    /\ UNCHANGED <<document, revisions, texts, draft>>

Kept(e) == revisions \cup {draft[e]}

\* admin_legal_edit loads the document.
Load(e) ==
    /\ draft[e] = Nothing
    /\ Overlap \/ draft = [x \in Editors |-> Nothing]
    /\ texts + Cardinality({x \in Editors : draft[x] # Nothing}) < MaxTexts
    /\ draft' = [draft EXCEPT ![e] = document]
    /\ UNCHANGED <<document, revisions, texts, page, consents>>

\* update_document: what was loaded becomes a revision, the new text the
\* version after it.
Save(e) ==
    /\ draft[e] # Nothing
    /\ revisions' = Kept(e)
    /\ document' = [version |-> draft[e].version + 1, text |-> texts + 1]
    /\ texts' = texts + 1
    /\ draft' = [draft EXCEPT ![e] = Nothing]
    /\ UNCHANGED <<page, consents>>

\* The text is as it was, or the process dies: nothing is saved.
GiveUp(e) ==
    /\ draft[e] # Nothing
    /\ draft' = [draft EXCEPT ![e] = Nothing]
    /\ UNCHANGED <<document, revisions, texts, page, consents>>

Next ==
    \/ \E p \in People : Read(p) \/ Agree(p)
    \/ \E e \in Editors : Load(e) \/ Save(e) \/ GiveUp(e)

Spec == Init /\ [][Next]_vars

-----------------------------------------------------------------------------

\* Every variable has its type.
TextsTypeOK ==
    /\ document \in Document
    /\ revisions \subseteq Document
    /\ texts \in 1..MaxTexts
    /\ page \in [People -> Document \cup {Nothing}]
    /\ consents \subseteq [who : People, version : 1..MaxTexts, read : 1..MaxTexts]
    /\ draft \in [Editors -> Document \cup {Nothing}]

TextsOf(version) == {x.text : x \in {y \in revisions \cup {document} : y.version = version}}

\* Each version there has been has one text, and that text is kept: the
\* history of the document has no gap and no doubtful place (update_document).
HistoryIsWhole ==
    \A v \in 1..document.version : Cardinality(TextsOf(v)) = 1

\* Whatever text was ever current is kept.
NoTextIsLost == \A n \in 1..texts : \E x \in revisions \cup {document} : x.text = n

\* From the version a person agreed to one can restore the text the person
\* has seen (models.py:497-498).
SeenTextIsRestored ==
    \A c \in consents : TextsOf(c.version) = {c.read}
=============================================================================
