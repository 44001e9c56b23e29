---------------------------- MODULE ScreenParts ----------------------------
(***************************************************************************)
(* The parts a screen of the frontend is made of, as its code uses         *)
(* react-query and react-hook-form:                                        *)
(*   a query   its key, a path, and the facts its endpoint answers with    *)
(*             (module Answers);                                           *)
(*   a change  a mutation hook: the facts its endpoint writes, the keys    *)
(*             its onSuccess invalidates, and whether the server accepts   *)
(*             it again once it has happened;                              *)
(*   a page    the queries it mounts, the changes it offers, those of them *)
(*             it offers only while the row on the screen allows it, and   *)
(*             its forms filled from a query.                              *)
(* A parameter inside a key (an id, a filter) is left out: of each query a *)
(* page can mount one instance is kept.                                    *)
(***************************************************************************)
EXTENDS Naturals, Sequences

Query(key, shows) == [key |-> key, shows |-> shows]

Change(name, writes, stales, accepted) ==
  [name |-> name, writes |-> writes, stales |-> stales, accepted |-> accepted]

\* A form is filled from the answer to "by" and saved by "saves".
\*   "asked"     only when its user asks to edit a row;
\* the others are filled anew by every changed answer, whatever was typed, and
\* differ in what their page shows before the first answer:
\*   "answered"  a loader, or the error of a read that failed;
\*   "settled"   a loader; once the read has failed, the form;
\*   "always"    the form;
\*   "user"      as "settled", and the form is also filled anew whenever the
\*               signed-in user is written to the store.
Form(by, saves, kind) == [by |-> by, saves |-> saves, kind |-> kind]

Page(name, mounts, offers, guarded, forms) ==
  [name |-> name, mounts |-> mounts, offers |-> offers \cup guarded,
   guarded |-> guarded, forms |-> forms]

\* A page with a panel in it.
Holding(page, panel) ==
  [name    |-> page.name,
   mounts  |-> page.mounts \cup panel.mounts,
   offers  |-> page.offers \cup panel.offers,
   guarded |-> page.guarded \cup panel.guarded,
   forms   |-> page.forms \cup panel.forms]

\* What a page behind a feature flag offers.  Its hooks stand before the
\* flag's early return, so its queries are mounted either way.
When(on, offered) == IF on THEN offered ELSE {}

\* invalidateQueries({queryKey}): every key that begins with the given one.
Stales(change, query) ==
  \E n \in 0 .. Len(query.key) : SubSeq(query.key, 1, n) \in change.stales

\* The change writes something the query shows.
Touches(change, query) == change.writes \cap query.shows # {}

=============================================================================
