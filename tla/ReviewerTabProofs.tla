-------------------------- MODULE ReviewerTabProofs --------------------------
(***************************************************************************)
(* A reviewer's tab implements each of its pages, so that what is proved   *)
(* of a page alone holds of it in the tab.  Of the pages, three are here:  *)
(* the "Add repositories" dialog, for any accounts and any number of       *)
(* openings and reloads; the list of pull requests, for any page size and  *)
(* any changes on GitHub; and the translation of a deck, for any number of *)
(* workers.  (The deck page and the dashboard have modules of their own.)  *)
(***************************************************************************)
EXTENDS ReviewerTab, ReviewsDashboardProofs

-----------------------------------------------------------------------------
(* The dialog.  The router answers calls one after the other, so a load of *)
(* this opening comes behind all abandoned ones, and once it is answered   *)
(* none of those is left whose finally could release the guard of the      *)
(* next.                                                                   *)

IsCurrent(c) == c.gen = dialog.gen

\* Only the last call can be one of this opening.
OnlyLast ==
    \A i \in DOMAIN calls :
        calls[i].gen <= dialog.gen /\ (i < Len(calls) => calls[i].gen < dialog.gen)

\* A closed dialog has abandoned its loads; one that is not rendered has
\* rendered the status of a closed one.
Idle ==
    /\ ~dialog.open => /\ dialog.status = "idle" /\ ~dialog.loading
                       /\ \A i \in DOMAIN calls : ~IsCurrent(calls[i])
    /\ ~dialog.shown => dialog.rendered = "idle"

\* An open dialog loads as long as the last call is its own.
Working ==
    /\ dialog.loading => dialog.status = "loading"
    /\ dialog.open =>
          /\ dialog.status # "idle"
          /\ dialog.status = "loading" <=> calls # << >> /\ IsCurrent(calls[Len(calls)])

\* A load of this opening was answered: no abandoned one is left, and the guard
\* is up exactly while another is on its way.
Settled ==
    dialog.open /\ {dialog.status, dialog.rendered} \cap {"loaded", "reauth", "error"} # {} =>
        /\ \A i \in DOMAIN calls : IsCurrent(calls[i])
        /\ dialog.status = "loading" => dialog.loading

\* What a load of this opening has read is not older than the opening.
ReadSince ==
    /\ before \subseteq installed
    /\ \A i \in DOMAIN calls :
          IsCurrent(calls[i]) /\ "installations" \notin calls[i].todo =>
              before \subseteq calls[i].groups

PickerInv == PickerTypeOK /\ OnlyLast /\ Idle /\ Working /\ Settled /\ ReadSince /\ OpenShowsInstalled

Calls == [gen : Nat, todo : SUBSET {"installations", "memberships"},
          groups : SUBSET Accounts, members : SUBSET Accounts]
Dialogs == [open : BOOLEAN, shown : BOOLEAN, status : PickerStatuses, rendered : PickerStatuses,
            loading : BOOLEAN, gen : Nat, groups : SUBSET Accounts, targets : SUBSET Accounts]

-----------------------------------------------------------------------------
LEMMA CallTypes ==
    ASSUME PickerInv
    PROVE  /\ calls \in Seq(Calls) /\ dialog \in Dialogs /\ reloads \in Nat
           /\ \A i \in DOMAIN calls : calls[i] \in Calls /\ calls[i].gen \in Nat
           /\ DOMAIN calls = 1 .. Len(calls) /\ Len(calls) \in Nat /\ dialog.gen \in Nat
<1>1. calls \in Seq(Calls) /\ dialog \in Dialogs /\ reloads \in Nat
    BY DEF PickerInv, PickerTypeOK, Calls, Dialogs
<1>2. \A i \in DOMAIN calls : calls[i] \in Calls
    BY <1>1
<1>3. \A c \in Calls : c.gen \in Nat
    BY DEF Calls
<1> QED BY <1>1, <1>2, <1>3 DEF Dialogs

LEMMA CurrentCalls ==
    ASSUME PickerInv
    PROVE  /\ Current = {i \in {Len(calls)} : i # 0 /\ IsCurrent(calls[i])}
           /\ Cardinality(Current) <= 1
           /\ Cardinality(Current) = 1 <=> calls # << >> /\ IsCurrent(calls[Len(calls)])
<1>1. Current = {i \in {Len(calls)} : i # 0 /\ IsCurrent(calls[i])}
    BY CallTypes DEF PickerInv, OnlyLast, Current, IsCurrent
<1>2. CASE calls # << >> /\ IsCurrent(calls[Len(calls)])
  <2>1. Current = {Len(calls)}
      BY CallTypes, <1>1, <1>2
  <2>2. Cardinality({Len(calls)}) = 1
      BY FS_Singleton
  <2> QED BY <1>2, <2>1, <2>2
<1>3. CASE ~(calls # << >> /\ IsCurrent(calls[Len(calls)]))
  <2>1. Current = {}
      BY <1>1, <1>3
  <2>2. Cardinality({}) = 0
      BY FS_EmptySet
  <2> QED BY <1>3, <2>1, <2>2
<1> QED BY <1>2, <1>3

\* A load that is started where there is none for this opening.
LEMMA LoadKeeps ==
    ASSUME PickerInv, NEW d \in Dialogs, d.gen = dialog.gen, d.open, ~d.loading,
           \A i \in DOMAIN calls : ~IsCurrent(calls[i]),
           Load(d)
    PROVE  /\ calls' = Append(calls, Call(dialog.gen))
           /\ dialog' = [d EXCEPT !.loading = TRUE, !.status = "loading"]
           /\ dialog' \in Dialogs /\ calls' \in Seq(Calls)
           /\ OnlyLast' /\ Working'
           /\ \A i \in DOMAIN calls' : i = Len(calls') \/ (i \in DOMAIN calls /\ calls'[i] = calls[i])
           /\ calls'[Len(calls')] = Call(dialog.gen) /\ Len(calls') = Len(calls) + 1
<1>1. /\ calls \in Seq(Calls) /\ dialog \in Dialogs
      /\ \A i \in DOMAIN calls : calls[i].gen \in Nat /\ calls[i].gen < dialog.gen
      /\ DOMAIN calls = 1 .. Len(calls) /\ Len(calls) \in Nat /\ dialog.gen \in Nat
    BY CallTypes DEF PickerInv, OnlyLast, IsCurrent
<1>2. calls' = Append(calls, Call(dialog.gen)) /\ dialog' = [d EXCEPT !.loading = TRUE, !.status = "loading"]
    BY DEF Load
<1>3. Call(dialog.gen) \in Calls /\ Call(dialog.gen).gen = dialog.gen
    BY <1>1 DEF Call, Calls, Dialogs
<1>4. /\ dialog' \in Dialogs /\ calls' \in Seq(Calls)
      /\ dialog'.gen = dialog.gen /\ dialog'.open /\ dialog'.status = "loading"
  <2>1. calls' \in Seq(Calls)
      BY <1>1, <1>2, <1>3
  <2>2. /\ dialog' \in Dialogs
        /\ dialog'.gen = d.gen /\ dialog'.open = d.open /\ dialog'.status = "loading"
      BY <1>2 DEF Dialogs, PickerStatuses
  <2> QED BY <2>1, <2>2
<1>5. /\ \A i \in DOMAIN calls' : i = Len(calls') \/ (i \in DOMAIN calls /\ calls'[i] = calls[i])
      /\ calls'[Len(calls')] = Call(dialog.gen) /\ Len(calls') = Len(calls) + 1
    BY <1>1, <1>2, <1>3
<1>6. OnlyLast'
  <2> SUFFICES ASSUME NEW i \in DOMAIN calls'
               PROVE  calls'[i].gen <= dialog'.gen /\ (i < Len(calls') => calls'[i].gen < dialog'.gen)
      BY DEF OnlyLast
  <2>1. CASE i = Len(calls')
      BY <1>1, <1>3, <1>4, <1>5, <2>1
  <2>2. CASE i \in DOMAIN calls /\ calls'[i] = calls[i]
      BY <1>1, <1>4, <2>2
  <2> QED BY <1>5, <2>1, <2>2
<1>7. Working'
    BY <1>1, <1>2, <1>3, <1>4, <1>5 DEF Working, IsCurrent
<1> QED BY <1>2, <1>4, <1>5, <1>6, <1>7

\* No call is left to a dialog that shows an answer and is not loading.
LEMMA SettledIsQuiet ==
    ASSUME PickerInv, dialog.open, ~dialog.loading, dialog.rendered \in {"loaded", "error"}
    PROVE  calls = << >>
<1>1. calls \in Seq(Calls) /\ dialog \in Dialogs
    BY CallTypes
<1>2. /\ \A i \in DOMAIN calls : IsCurrent(calls[i])
      /\ dialog.status # "loading"
    BY DEF PickerInv, Settled
<1> QED BY <1>1, <1>2 DEF PickerInv, Working

LEMMA OpenKeeps == ASSUME PickerInv, Open PROVE PickerInv'
<1> DEFINE d == [dialog EXCEPT !.open = TRUE]
<1>1. calls \in Seq(Calls) /\ dialog \in Dialogs /\ reloads \in Nat
    BY CallTypes
<1>2. /\ dialog.rendered = "idle" /\ dialog.status = "idle" /\ ~dialog.loading
      /\ \A i \in DOMAIN calls : ~IsCurrent(calls[i])
    BY DEF PickerInv, Idle, Open
<1>3. Load(d) /\ before' = installed /\ UNCHANGED <<installed, reloads>>
    BY <1>2 DEF Open
<1>4. /\ d \in Dialogs /\ d.gen = dialog.gen /\ d.open /\ ~d.loading
      /\ d.rendered = "idle"
    BY <1>1, <1>2 DEF Dialogs
<1> HIDE DEF d
<1>5. /\ dialog' = [d EXCEPT !.loading = TRUE, !.status = "loading"]
      /\ dialog' \in Dialogs /\ calls' \in Seq(Calls)
      /\ OnlyLast' /\ Working'
      /\ \A i \in DOMAIN calls' : i = Len(calls') \/ (i \in DOMAIN calls /\ calls'[i] = calls[i])
      /\ calls'[Len(calls')] = Call(dialog.gen)
    BY <1>2, <1>3, <1>4, LoadKeeps
<1>6. /\ dialog'.gen = dialog.gen /\ dialog'.open /\ dialog'.status = "loading"
      /\ dialog'.rendered = "idle"
    BY <1>1, <1>4, <1>5 DEF Dialogs
<1>7. PickerTypeOK'
    BY <1>1, <1>3, <1>5 DEF PickerInv, PickerTypeOK, Calls, Dialogs
<1>8. Idle' /\ Settled'
    BY <1>6 DEF Idle, Settled
<1>9. ReadSince'
    BY <1>2, <1>3, <1>5, <1>6 DEF ReadSince, IsCurrent, Call
<1> QED BY <1>5, <1>6, <1>7, <1>8, <1>9 DEF PickerInv, OpenShowsInstalled

\* Coming back and "Try again".
LEMMA ReloadKeeps ==
    ASSUME PickerInv, dialog.open, dialog.rendered \in {"loaded", "error"}, Load(dialog),
           reloads' = reloads + 1, UNCHANGED <<installed, before>>
    PROVE  PickerInv'
<1>1. calls \in Seq(Calls) /\ dialog \in Dialogs /\ reloads \in Nat
    BY CallTypes
<1>2. CASE dialog.loading
    BY <1>1, <1>2 DEF Load, PickerInv, PickerTypeOK, OnlyLast, Idle, Working, Settled, ReadSince,
                      OpenShowsInstalled, IsCurrent
<1>3. CASE ~dialog.loading
  <2>1. calls = << >>
      BY <1>3, SettledIsQuiet
  <2>9. \A i \in DOMAIN calls : ~IsCurrent(calls[i])
      BY <2>1
  <2>2. /\ dialog' = [dialog EXCEPT !.loading = TRUE, !.status = "loading"]
        /\ dialog' \in Dialogs /\ calls' \in Seq(Calls)
        /\ OnlyLast' /\ Working'
        /\ calls'[Len(calls')] = Call(dialog.gen) /\ Len(calls') = 1
    <3>1. /\ dialog' = [dialog EXCEPT !.loading = TRUE, !.status = "loading"]
          /\ dialog' \in Dialogs /\ calls' \in Seq(Calls)
          /\ OnlyLast' /\ Working'
          /\ calls'[Len(calls')] = Call(dialog.gen) /\ Len(calls') = Len(calls) + 1
        BY <1>1, <1>3, <2>9, LoadKeeps
    <3>2. Len(calls) = 0
        BY <2>1
    <3> QED BY <3>1, <3>2
  <2>3. /\ dialog'.gen = dialog.gen /\ dialog'.open /\ dialog'.status = "loading" /\ dialog'.loading
        /\ dialog'.shown = dialog.shown /\ dialog'.rendered = dialog.rendered
      BY <1>1, <2>2 DEF Dialogs
  <2>4. PickerTypeOK'
      BY <1>1, <2>2 DEF PickerInv, PickerTypeOK, Calls, Dialogs
  <2>5. Idle' /\ Settled' /\ ReadSince'
      BY <2>2, <2>3 DEF PickerInv, Idle, Settled, ReadSince, IsCurrent, Call
  <2> QED BY <2>2, <2>3, <2>4, <2>5 DEF PickerInv, OpenShowsInstalled
<1> QED BY <1>2, <1>3

LEMMA CloseKeeps == ASSUME PickerInv, Close PROVE PickerInv'
<1>1. /\ calls \in Seq(Calls) /\ dialog \in Dialogs /\ dialog.gen \in Nat
      /\ \A i \in DOMAIN calls : calls[i].gen \in Nat /\ calls[i].gen <= dialog.gen
    BY CallTypes DEF PickerInv, OnlyLast
<1>2. /\ ~dialog'.open /\ dialog'.gen = dialog.gen + 1 /\ ~dialog'.loading /\ dialog'.status = "idle"
      /\ dialog'.shown = dialog.shown /\ dialog'.rendered = dialog.rendered
      /\ dialog' \in Dialogs
      /\ UNCHANGED <<installed, calls, reloads, before>>
  <2>1. /\ dialog' = [dialog EXCEPT !.open = FALSE, !.gen = @ + 1, !.loading = FALSE,
                                    !.status = "idle", !.groups = {}, !.targets = {}]
        /\ UNCHANGED <<installed, calls, reloads, before>>
      BY DEF Close
  <2>2. /\ dialog'.open = FALSE /\ dialog'.gen = dialog.gen + 1 /\ dialog'.loading = FALSE
        /\ dialog'.status = "idle"
        /\ dialog'.shown = dialog.shown /\ dialog'.rendered = dialog.rendered
      BY <1>1, <2>1 DEF Dialogs
  <2>3. dialog' \in Dialogs
    <3>1. dialog' = [open |-> FALSE, shown |-> dialog.shown, status |-> "idle",
                     rendered |-> dialog.rendered, loading |-> FALSE, gen |-> dialog.gen + 1,
                     groups |-> {}, targets |-> {}]
        BY <1>1, <2>1 DEF Dialogs
    <3> QED BY <1>1, <3>1 DEF Dialogs, PickerStatuses
  <2> QED BY <2>1, <2>2, <2>3
<1>3. \A i \in DOMAIN calls : calls[i].gen < dialog'.gen /\ calls[i].gen # dialog'.gen
    BY <1>1, <1>2
<1>4. PickerTypeOK'
    BY <1>2 DEF PickerInv, PickerTypeOK, Dialogs
<1>5. OnlyLast'
    BY <1>1, <1>2, <1>3 DEF OnlyLast
<1>6. Idle' /\ ReadSince'
    BY <1>2, <1>3 DEF PickerInv, Idle, ReadSince, IsCurrent
<1> QED BY <1>2, <1>4, <1>5, <1>6 DEF PickerInv, Working, Settled, OpenShowsInstalled

LEMMA RenderKeeps == ASSUME PickerInv, Render PROVE PickerInv'
<1>1. calls \in Seq(Calls) /\ dialog \in Dialogs /\ reloads \in Nat
    BY CallTypes
<1>2. /\ dialog' = [dialog EXCEPT !.shown = dialog.open, !.rendered = dialog.status]
      /\ UNCHANGED <<installed, calls, reloads, before>>
    BY DEF Render
<1>3. /\ dialog' \in Dialogs
      /\ dialog'.shown = dialog.open /\ dialog'.rendered = dialog.status
      /\ dialog'.open = dialog.open /\ dialog'.status = dialog.status
      /\ dialog'.loading = dialog.loading /\ dialog'.gen = dialog.gen
      /\ dialog'.groups = dialog.groups /\ dialog'.targets = dialog.targets
    BY <1>1, <1>2 DEF Dialogs
<1>4. PickerTypeOK'
    BY <1>2, <1>3 DEF PickerInv, PickerTypeOK, Dialogs
<1>5. OnlyLast' /\ ReadSince' /\ OpenShowsInstalled' /\ Working'
    BY <1>2, <1>3 DEF PickerInv, OnlyLast, ReadSince, OpenShowsInstalled, Working, IsCurrent
<1>6. Idle' /\ Settled'
    BY <1>2, <1>3 DEF PickerInv, Idle, Settled, IsCurrent
<1> QED BY <1>4, <1>5, <1>6 DEF PickerInv

\* A read on the server, of the call that is answered next.
LEMMA ServeKeeps ==
    ASSUME PickerInv, calls # << >>, UNCHANGED <<installed, dialog, reloads, before>>,
           NEW c \in Calls, c.gen = Head(calls).gen, Serve(c),
           IsCurrent(c) /\ "installations" \notin c.todo => before \subseteq c.groups
    PROVE  PickerInv'
<1>1. calls \in Seq(Calls) /\ dialog \in Dialogs /\ reloads \in Nat
    BY CallTypes
<1>2. /\ calls' \in Seq(Calls) /\ Len(calls') = Len(calls) /\ DOMAIN calls' = DOMAIN calls
      /\ calls'[1] = c /\ \A i \in DOMAIN calls : i # 1 => calls'[i] = calls[i]
    BY <1>1 DEF Serve
<1>3. \A i \in DOMAIN calls : calls'[i].gen = calls[i].gen
    BY <1>1, <1>2
<1>4. PickerTypeOK'
    BY <1>2 DEF PickerInv, PickerTypeOK, Calls
<1>5. OnlyLast' /\ Idle' /\ Working' /\ Settled'
    BY <1>1, <1>2, <1>3 DEF PickerInv, OnlyLast, Idle, Working, Settled, IsCurrent
<1>6. ReadSince'
    BY <1>1, <1>2 DEF PickerInv, ReadSince, IsCurrent
<1> QED BY <1>4, <1>5, <1>6 DEF PickerInv, OpenShowsInstalled

\* An answer, of this opening or of an abandoned one.
LEMMA AnsweredKeeps ==
    ASSUME PickerInv, NEW status \in {"loaded", "reauth", "error"}, NEW groups \in SUBSET Accounts,
           NEW targets \in SUBSET Accounts,
           Answered([dialog EXCEPT !.status = status, !.groups = groups, !.targets = targets]),
           status = "loaded" /\ IsCurrent(Head(calls)) =>
               /\ before \subseteq groups
               /\ \A t \in targets, g \in groups : Lower(t) # Lower(g)
    PROVE  PickerInv'
<1>1. calls \in Seq(Calls) /\ dialog \in Dialogs /\ reloads \in Nat /\ calls # << >>
    BY CallTypes DEF Answered
<1>2. /\ calls' = Tail(calls) /\ calls' \in Seq(Calls) /\ Len(calls') = Len(calls) - 1
      /\ \A i \in DOMAIN calls' : i + 1 \in DOMAIN calls /\ calls'[i] = calls[i + 1]
      /\ UNCHANGED <<installed, reloads, before>>
    BY <1>1 DEF Answered
<1>3. CASE IsCurrent(Head(calls))
  <2>1. dialog.open /\ Len(calls) = 1 /\ dialog.status = "loading"
    <3>1. 1 \in DOMAIN calls /\ Head(calls) = calls[1] /\ DOMAIN calls = 1 .. Len(calls)
        BY <1>1
    <3>2. dialog.open
        BY <1>3, <3>1 DEF PickerInv, Idle
    <3>3. ~(1 < Len(calls))
        BY <1>1, <1>3, <3>1, CallTypes DEF PickerInv, OnlyLast, IsCurrent
    <3>4. Len(calls) = 1
        BY <1>1, <3>1, <3>3
    <3> QED BY <1>1, <1>3, <3>1, <3>2, <3>4 DEF PickerInv, Working
  <2>2. /\ dialog' \in Dialogs /\ ~dialog'.loading /\ dialog'.status = status
        /\ dialog'.open /\ dialog'.gen = dialog.gen
        /\ dialog'.shown = dialog.shown /\ dialog'.rendered = dialog.rendered
        /\ dialog'.groups = groups /\ dialog'.targets = targets
      BY <1>1, <1>3, <2>1 DEF Answered, IsCurrent, Dialogs, PickerStatuses
  <2>3. calls' = << >> /\ DOMAIN calls' = {}
      BY <1>2, <2>1
  <2>4. PickerTypeOK'
      BY <1>2, <2>2 DEF PickerInv, PickerTypeOK, Calls, Dialogs
  <2>5. OnlyLast' /\ Idle' /\ Working' /\ Settled' /\ ReadSince'
      BY <1>2, <2>2, <2>3 DEF PickerInv, OnlyLast, Idle, Working, Settled, ReadSince
  <2>6. OpenShowsInstalled'
      BY <1>2, <1>3, <2>2 DEF OpenShowsInstalled, Lower
  <2> QED BY <2>4, <2>5, <2>6 DEF PickerInv
<1>4. CASE ~IsCurrent(Head(calls))
  <2>1. /\ dialog' = [dialog EXCEPT !.loading = FALSE]
        /\ dialog' \in Dialogs /\ ~dialog'.loading
        /\ dialog'.status = dialog.status /\ dialog'.open = dialog.open /\ dialog'.gen = dialog.gen
        /\ dialog'.shown = dialog.shown /\ dialog'.rendered = dialog.rendered
        /\ dialog'.groups = dialog.groups /\ dialog'.targets = dialog.targets
      BY <1>1, <1>4 DEF Answered, IsCurrent, Dialogs
  <2>2. PickerTypeOK'
      BY <1>2, <2>1 DEF PickerInv, PickerTypeOK, Calls, Dialogs
  <2>3. OnlyLast' /\ Idle' /\ ReadSince' /\ OpenShowsInstalled'
      BY <1>1, <1>2, <2>1 DEF PickerInv, OnlyLast, Idle, ReadSince, OpenShowsInstalled, IsCurrent
  <2>4. Working'
    <3>1. CASE Len(calls) = 1
      <4>1. ~IsCurrent(calls[Len(calls)]) /\ calls' = << >>
          BY <1>1, <1>2, <1>4, <3>1
      <4> QED BY <1>1, <2>1, <4>1 DEF PickerInv, Working
    <3>2. CASE Len(calls) # 1
      <4>1. calls' # << >> /\ calls'[Len(calls')] = calls[Len(calls)]
        <5>1. Len(calls) \in Nat /\ Len(calls) > 1 /\ Len(calls') \in Nat
            BY <1>1, <1>2, <3>2
        <5>2. Len(calls') \in DOMAIN calls' /\ Len(calls') + 1 = Len(calls)
            BY <1>2, <5>1
        <5>3. calls'[Len(calls')] = calls[Len(calls') + 1]
            BY <1>2, <5>2
        <5>4. calls' = << >> => Len(calls') = 0
            OBVIOUS
        <5> QED BY <5>1, <5>2, <5>3, <5>4
      <4> QED BY <1>1, <2>1, <4>1 DEF PickerInv, Working, IsCurrent
    <3> QED BY <3>1, <3>2
  <2>5. Settled'
      BY <1>1, <1>4, <2>1 DEF PickerInv, Settled
  <2> QED BY <2>2, <2>3, <2>4, <2>5 DEF PickerInv
<1> QED BY <1>3, <1>4
-----------------------------------------------------------------------------
LEMMA PickerInitKeeps == ASSUME PickerInit PROVE PickerInv
<1> USE DEF PickerInit, Untouched
<1>1. PickerTypeOK
    BY PickerAssumption DEF PickerTypeOK, PickerStatuses
<1>2. OnlyLast /\ Idle /\ Working /\ Settled /\ ReadSince /\ OpenShowsInstalled
    BY DEF OnlyLast, Idle, Working, Settled, ReadSince, OpenShowsInstalled
<1> QED BY <1>1, <1>2 DEF PickerInv

\* A read of the installations sees all that had the App when the dialog was
\* opened.
LEMMA InstallationsKeep == ASSUME PickerInv, listInstallations PROVE PickerInv'
<1> DEFINE c == [Head(calls) EXCEPT !.todo = @ \ {"installations"}, !.groups = installed]
<1>1. Head(calls) \in Calls
    BY CallTypes DEF listInstallations
<1>2. c \in Calls /\ c.gen = Head(calls).gen /\ c.groups = installed
    BY <1>1 DEF Calls, PickerInv, PickerTypeOK
<1>3. before \subseteq installed
    BY DEF PickerInv, ReadSince
<1> HIDE DEF c
<1>4. calls # << >> /\ Serve(c) /\ UNCHANGED <<installed, dialog, reloads, before>>
    BY DEF listInstallations, c
<1> QED BY <1>2, <1>3, <1>4, ServeKeeps

LEMMA MembershipsKeep == ASSUME PickerInv, listUserMemberships PROVE PickerInv'
<1>1. PICK members \in {Memberships, {}} :
         Serve([Head(calls) EXCEPT !.todo = @ \ {"memberships"}, !.members = members])
    BY DEF listUserMemberships
<1> DEFINE c == [Head(calls) EXCEPT !.todo = @ \ {"memberships"}, !.members = members]
<1>2. Head(calls) \in Calls /\ Head(calls) = calls[1] /\ 1 \in DOMAIN calls
    BY CallTypes DEF listUserMemberships
<1>3. /\ c \in Calls /\ c.gen = Head(calls).gen /\ c.groups = Head(calls).groups
      /\ "installations" \in c.todo <=> "installations" \in Head(calls).todo
    BY <1>2, PickerAssumption DEF Calls
<1>4. IsCurrent(c) /\ "installations" \notin c.todo => before \subseteq c.groups
    BY <1>2, <1>3 DEF PickerInv, ReadSince, IsCurrent
<1> HIDE DEF c
<1>5. calls # << >> /\ Serve(c) /\ UNCHANGED <<installed, dialog, reloads, before>>
    BY <1>1 DEF listUserMemberships, c
<1> QED BY <1>3, <1>4, <1>5, ServeKeeps

LEMMA LoadedKeeps == ASSUME PickerInv, Loaded PROVE PickerInv'
<1> DEFINE groups == Head(calls).groups
           targets == computeInstallableTargets(Head(calls).members, groups)
<1>1. Head(calls) \in Calls /\ Head(calls) = calls[1] /\ 1 \in DOMAIN calls
    BY CallTypes DEF Loaded
<1>2. groups \in SUBSET Accounts /\ targets \in SUBSET Accounts
    BY <1>1, PickerAssumption DEF Calls, computeInstallableTargets
<1>3. \A t \in targets, g \in groups : Lower(t) # Lower(g)
    BY DEF computeInstallableTargets
<1>4. IsCurrent(Head(calls)) => before \subseteq groups
    BY <1>1 DEF PickerInv, ReadSince, Loaded
<1> HIDE DEF groups, targets
<1>5. Answered([dialog EXCEPT !.status = "loaded", !.groups = groups, !.targets = targets])
    BY DEF Loaded, groups, targets
<1> QED BY <1>2, <1>3, <1>4, <1>5, AnsweredKeeps

LEMMA PickerNextKeeps == ASSUME PickerInv, [PickerNext]_pickerVars PROVE PickerInv'
<1>1. CASE Open
    BY <1>1, OpenKeeps
<1>2. CASE Close
    BY <1>2, CloseKeeps
<1>3. CASE Render
    BY <1>3, RenderKeeps
<1>4. CASE Refocus
    BY <1>4, ReloadKeeps DEF Refocus
<1>5. CASE TryAgain
    BY <1>5, ReloadKeeps DEF TryAgain
<1>6. CASE listInstallations
    BY <1>6, InstallationsKeep
<1>7. CASE listUserMemberships
    BY <1>7, MembershipsKeep
<1>8. CASE Loaded
    BY <1>8, LoadedKeeps
<1>9. CASE Reauth
    BY <1>9, AnsweredKeeps DEF Reauth
<1>10. CASE LoadFails
    BY <1>10, AnsweredKeeps DEF LoadFails
<1>11. CASE Install
    BY <1>11 DEF Install, PickerInv, PickerTypeOK, OnlyLast, Idle, Working, Settled, ReadSince,
                 OpenShowsInstalled, IsCurrent
<1>12. CASE UNCHANGED pickerVars
    BY <1>12 DEF pickerVars, PickerInv, PickerTypeOK, OnlyLast, Idle, Working, Settled, ReadSince,
                 OpenShowsInstalled, IsCurrent
<1> QED BY <1>1, <1>2, <1>3, <1>4, <1>5, <1>6, <1>7, <1>8, <1>9, <1>10, <1>11, <1>12
           DEF PickerNext

\* The dialog and its calls are well typed.
THEOREM PickerTypeCorrect == PickerSpec => []PickerTypeOK
<1>1. PickerInv => PickerTypeOK
    BY DEF PickerInv
<1> QED BY <1>1, PickerInitKeeps, PickerNextKeeps, PTL DEF PickerSpec

\* No event and no late answer starts or leaves work in a closed dialog, so
\* that the next opening reads anew.
THEOREM ClosedDialogIsIdle == PickerSpec => []ClosedIsIdle
<1>1. PickerInv => ClosedIsIdle
    BY DEF PickerInv, Idle, ClosedIsIdle, Current, IsCurrent
<1> QED BY <1>1, PickerInitKeeps, PickerNextKeeps, PTL DEF PickerSpec

\* The spinner never waits for nothing, and no opening has two loads on their
\* way, although the finally of an abandoned load releases the guard.
THEOREM OneLoadPerSpinner == PickerSpec => []SpinnerHasLoad
<1>1. PickerInv => SpinnerHasLoad
    BY CurrentCalls DEF PickerInv, Working, SpinnerHasLoad
<1> QED BY <1>1, PickerInitKeeps, PickerNextKeeps, PTL DEF PickerSpec

\* What an open dialog lists was read since it was opened.
THEOREM FreshList == PickerSpec => []OpenShowsInstalled
<1>1. PickerInv => OpenShowsInstalled
    BY DEF PickerInv
<1> QED BY <1>1, PickerInitKeeps, PickerNextKeeps, PTL DEF PickerSpec

-----------------------------------------------------------------------------
(* The list of pull requests.  Pages of one fetch may be of different      *)
(* lists, but entries of the same pull request come in the order of its    *)
(* updates; and if nothing changed since the fetch began, what it has read *)
(* is the beginning of the list.                                           *)

PullStates == [number : Nat, updatedAt : Nat]

FetchStates == [on : BOOLEAN, page : Nat \ {0}, got : Seq(PullStates), full : BOOLEAN, since : Nat]
ListStates == [stage : {"before", "here", "left"}, pulls : Seq(PullStates),
               changed : SUBSET [number : Nat, as : {"new", "updated"}],
               status : {"idle", "syncing", "error"}, fresh : BOOLEAN, login : BOOLEAN,
               since : Nat, prev : Seq(PullStates)]

PullsTypes ==
    /\ open \in Seq(PullStates) /\ changes \in Nat /\ syncs \in Nat
    /\ fetch \in FetchStates /\ list \in ListStates

OpenOnce == \A i, j \in DOMAIN open : open[i].number = open[j].number => i = j

\* Entries of the same pull request come in the order of its updates.
Chronological(s) ==
    \A i, j \in DOMAIN s : i <= j /\ s[i].number = s[j].number => s[i].updatedAt <= s[j].updatedAt

\* What was read is not newer than what GitHub has.
NotAhead ==
    /\ \A j \in DOMAIN open : open[j].updatedAt <= changes
    /\ \A i \in DOMAIN fetch.got :
          /\ fetch.got[i].updatedAt <= changes
          /\ \A j \in DOMAIN open : fetch.got[i].number = open[j].number =>
                                        fetch.got[i].updatedAt <= open[j].updatedAt

\* As long as nothing changes, the pages read make up the beginning of GitHub's
\* list, a whole number of pages unless they are all of it.
Undisturbed ==
    /\ fetch.page <= MaxPages + 1
    /\ fetch.since <= changes /\ list.since <= changes
    /\ fetch.on /\ fetch.since = changes =>
          /\ Len(fetch.got) <= Len(open)
          /\ \A i \in 1 .. Len(fetch.got) : fetch.got[i] = open[i]
          /\ Len(fetch.got) = IF fetch.full THEN (fetch.page - 1) * PageSize ELSE Len(open)

\* The view, and the one before it.
Viewed ==
    /\ Chronological(list.pulls)
    /\ list.stage = "before" => list.changed = {} /\ list.pulls = << >> /\ list.prev = << >>

PullsInv ==
    /\ PullsTypes /\ OpenOnce /\ NotAhead /\ Chronological(fetch.got) /\ Undisturbed /\ Viewed
    /\ SyncedViewIsCurrent /\ MarkersAreOfLastSync

LEMMA NatMaximum ==
    ASSUME NEW S \in SUBSET Nat, S # {}, NEW b \in Nat, \A x \in S : x <= b
    PROVE  Max(S) \in S /\ \A y \in S : y <= Max(S)
<1> DEFINE B == {y \in 0 .. b : b - y \in S}
<1>1. PICK x \in S : TRUE
    OBVIOUS
<1>2. b - x \in B /\ B \in SUBSET Nat
    OBVIOUS
<1>3. Min(B) \in B /\ \A y \in B : Min(B) <= y
    BY <1>2, NatMinimum
<1> DEFINE m == b - Min(B)
<1>4. m \in S /\ Min(B) = b - m /\ Min(B) \in Nat /\ m \in Nat
    BY <1>3
<1>5. ASSUME NEW y \in S PROVE y <= m
  <2>1. b - y \in B
      OBVIOUS
  <2>2. Min(B) <= b - y
      BY <1>3, <2>1
  <2> HIDE DEF m, B
  <2> QED BY <1>4, <2>2
<1> HIDE DEF m, B
<1> QED BY <1>4, <1>5 DEF Max

\* GitHub's list without the pull request n.
LEMMA OthersOf ==
    ASSUME NEW n, open \in Seq(PullStates)
    PROVE  /\ Others(n) \in Seq(PullStates)
           /\ OpenOnce => /\ n \notin Numbers(Others(n))
                          /\ \A i \in DOMAIN Others(n) : \E j \in DOMAIN open :
                                Others(n)[i] = open[j] /\ j \in {i, i + 1}
                          /\ \A i, j \in DOMAIN Others(n) : Others(n)[i].number = Others(n)[j].number => i = j
<1> DEFINE spots == {i \in 1 .. Len(open) : open[i].number = n}
           rest == RemoveAt(open, Min(spots))
<1>1. Others(n) = IF n \in Numbers(open) THEN rest ELSE open
    BY DEF Others, RemoveFirstMatch, SelectInSeq, Numbers
<1>2. CASE n \notin Numbers(open)
    BY <1>1, <1>2 DEF OpenOnce
<1>3. CASE n \in Numbers(open)
  <2>1. spots # {} /\ spots \in SUBSET Nat
      BY <1>3 DEF Numbers
  <2>2. Min(spots) \in spots
      BY <2>1, NatMinimum
  <2> DEFINE k == Min(spots)
  <2>3. k \in 1 .. Len(open) /\ open[k].number = n
      BY <2>2
  <2>4. Others(n) = RemoveAt(open, k)
      BY <1>1, <1>3
  <2> HIDE DEF k, rest
  <2>5. /\ Others(n) \in Seq(PullStates) /\ Len(Others(n)) = Len(open) - 1
        /\ \A i \in 1 .. Len(open) - 1 : Others(n)[i] = IF i < k THEN open[i] ELSE open[i + 1]
      BY <2>3, <2>4, RemovedAt
  <2>6. DOMAIN Others(n) = 1 .. Len(open) - 1 /\ DOMAIN open = 1 .. Len(open) /\ Len(open) \in Nat
      BY <2>5
  <2>7. ASSUME NEW i \in DOMAIN Others(n)
        PROVE  LET j == IF i < k THEN i ELSE i + 1 IN
               j \in DOMAIN open /\ Others(n)[i] = open[j] /\ j # k /\ i \in Nat /\ k \in Nat
      BY <2>3, <2>5, <2>6
  <2>8. ASSUME OpenOnce, NEW i \in DOMAIN Others(n), NEW j \in DOMAIN Others(n),
               Others(n)[i].number = Others(n)[j].number
        PROVE  i = j
    <3> DEFINE x == IF i < k THEN i ELSE i + 1
               y == IF j < k THEN j ELSE j + 1
    <3>1. x \in DOMAIN open /\ Others(n)[i] = open[x] /\ x # k /\ i \in Nat /\ k \in Nat
        BY <2>7
    <3>2. y \in DOMAIN open /\ Others(n)[j] = open[y] /\ y # k /\ j \in Nat
        BY <2>7
    <3>3. x = y
        BY <2>8, <3>1, <3>2 DEF OpenOnce
    <3> QED BY <3>1, <3>2, <3>3
  <2>9. OpenOnce => n \notin Numbers(Others(n))
      BY <2>3, <2>6, <2>7 DEF OpenOnce, Numbers
  <2>10. \A i \in DOMAIN Others(n) : \E j \in DOMAIN open : Others(n)[i] = open[j] /\ j \in {i, i + 1}
    <3> SUFFICES ASSUME NEW i \in DOMAIN Others(n)
                 PROVE  \E j \in DOMAIN open : Others(n)[i] = open[j] /\ j \in {i, i + 1}
        OBVIOUS
    <3> QED BY <2>7
  <2> QED BY <2>5, <2>8, <2>9, <2>10
<1> QED BY <1>2, <1>3

\* A page is the next stretch of GitHub's list, and is full or reaches its end.
LEMMA PageIsStretch ==
    ASSUME open \in Seq(PullStates), NEW k \in Nat \ {0}
    PROVE  LET a == (k - 1) * PageSize IN
           /\ a \in Nat
           /\ PageOf(k) \in Seq(PullStates)
           /\ a <= Len(open) => Len(PageOf(k)) = PageSize \/ a + Len(PageOf(k)) = Len(open)
           /\ \A i \in 1 .. Len(PageOf(k)) : a + i \in DOMAIN open /\ PageOf(k)[i] = open[a + i]
<1> DEFINE a == (k - 1) * PageSize
           m == Min({k * PageSize, Len(open)})
<1>1. PageSize \in Nat \ {0} /\ Len(open) \in Nat /\ k * PageSize = a + PageSize /\ a \in Nat
    BY PullsAssumption
<1>2. {k * PageSize, Len(open)} \in SUBSET Nat /\ {k * PageSize, Len(open)} # {}
    BY <1>1
<1>3. m \in {k * PageSize, Len(open)} /\ \A y \in {k * PageSize, Len(open)} : m <= y
    BY <1>2, NatMinimum
<1>4. PageOf(k) = SubSeq(open, a + 1, m)
    BY DEF PageOf
<1> HIDE DEF m, a
<1>5. a \in Nat /\ PageSize \in Nat /\ m \in Nat /\ Len(open) \in Nat /\ m <= Len(open)
    BY <1>1, <1>3
<1>6. m = a + PageSize \/ m = Len(open)
    BY <1>1, <1>3
<1>7. ASSUME a < m
      PROVE  /\ PageOf(k) \in Seq(PullStates) /\ Len(PageOf(k)) = m - a
             /\ \A i \in 1 .. m - a : a + i \in DOMAIN open /\ PageOf(k)[i] = open[a + i]
    BY <1>4, <1>5, <1>7
<1>8. ASSUME m <= a
      PROVE  PageOf(k) \in Seq(PullStates) /\ Len(PageOf(k)) = 0 /\ m # a + PageSize
  <2>1. PageOf(k) = << >>
      BY <1>4, <1>5, <1>8, SubSeqEmpty
  <2>2. m # a + PageSize
      BY <1>1, <1>5, <1>8
  <2> QED BY <2>1, <2>2
<1>9. a <= Len(open) => Len(PageOf(k)) = PageSize \/ a + Len(PageOf(k)) = Len(open)
  <2>1. CASE a < m
      BY <1>5, <1>6, <1>7, <2>1
  <2>2. CASE m <= a
      BY <1>5, <1>6, <1>8, <2>2
  <2> QED BY <1>5, <2>1, <2>2
<1>10. \A i \in 1 .. Len(PageOf(k)) : a + i \in DOMAIN open /\ PageOf(k)[i] = open[a + i]
    BY <1>5, <1>7, <1>8
<1>11. PageOf(k) \in Seq(PullStates)
    BY <1>5, <1>7, <1>8
<1> QED BY <1>5, <1>9, <1>10, <1>11 DEF a

-----------------------------------------------------------------------------
\* A view of which entries are in order has no markers against itself.
LEMMA NothingNew ==
    ASSUME NEW s \in Seq(PullStates), Chronological(s)
    PROVE  diffChanges(s, s) = {}
<1>1. ASSUME NEW i \in DOMAIN s PROVE ~(s[i].updatedAt > Before(s, s[i].number))
  <2> DEFINE spots == {j \in 1 .. Len(s) : s[j].number = s[i].number}
             k == Max(spots)
  <2>1. i \in spots /\ spots # {} /\ spots \in SUBSET Nat /\ Len(s) \in Nat /\ \A j \in spots : j <= Len(s)
      OBVIOUS
  <2>2. k \in spots /\ \A j \in spots : j <= k
      BY <2>1, NatMaximum
  <2>3. Before(s, s[i].number) = s[k].updatedAt
      BY <2>1 DEF Before, SelectLastInSeq
  <2> HIDE DEF k
  <2>4. i \in DOMAIN s /\ k \in DOMAIN s /\ i <= k /\ s[i].number = s[k].number
      BY <2>1, <2>2
  <2>5. s[i].updatedAt <= s[k].updatedAt /\ s[i] \in PullStates /\ s[k] \in PullStates
      BY <2>4 DEF Chronological
  <2> QED BY <2>3, <2>5 DEF PullStates
<1>2. \A p \in Range(s) : p.number \in Numbers(s) /\ ~(p.updatedAt > Before(s, p.number))
    BY <1>1 DEF Range, Numbers
<1> QED BY <1>2 DEF diffChanges

LEMMA PullsInitKeeps == ASSUME PullsInit PROVE PullsInv
<1>1. PullsTypes
  <2>1. << >> \in Seq(PullStates)
      OBVIOUS
  <2> QED BY <2>1, PullsAssumption DEF PullsInit, PullsTypes, Pull, PullStates, NoFetch, FetchStates, NoList, ListStates
<1>2. OpenOnce /\ NotAhead /\ Chronological(fetch.got) /\ Undisturbed /\ Viewed
    BY PullsAssumption DEF PullsInit, OpenOnce, NotAhead, Chronological, Undisturbed, Viewed, Pull, NoFetch, NoList
<1>3. SyncedViewIsCurrent
    BY DEF PullsInit, NoList, SyncedViewIsCurrent
<1>4. MarkersAreOfLastSync
  <2>1. list.changed = {} /\ list.prev = << >> /\ list.pulls = << >>
      BY DEF PullsInit, NoList
  <2>2. << >> \in Seq(PullStates) /\ Chronological(<< >>)
      BY DEF Chronological
  <2>3. diffChanges(<< >>, << >>) = {}
      BY <2>2, NothingNew
  <2> QED BY <2>1, <2>3 DEF MarkersAreOfLastSync
<1> QED BY <1>1, <1>2, <1>3, <1>4 DEF PullsInv

\* A pull request is opened or updated, and is then the first of the list.
LEMMA OpenOrUpdateKeeps ==
    ASSUME PullsInv, NEW n \in Pulls, OpenOrUpdate(n) PROVE PullsInv'
<1>1. /\ open \in Seq(PullStates) /\ changes \in Nat /\ n \in Nat
      /\ fetch \in FetchStates /\ fetch.got \in Seq(PullStates) /\ list \in ListStates
      /\ list.pulls \in Seq(PullStates)
    BY PullsAssumption DEF PullsInv, PullsTypes, FetchStates, ListStates
<1> DEFINE first == Pull(n, changes + 1)
           rest == Others(n)
<1>2. /\ open' = <<first>> \o rest /\ changes' = changes + 1 /\ UNCHANGED <<fetch, list, syncs>>
    BY DEF OpenOrUpdate, Changes
<1>3. /\ rest \in Seq(PullStates) /\ n \notin Numbers(rest)
      /\ \A i \in DOMAIN rest : \E j \in DOMAIN open : rest[i] = open[j]
      /\ \A i, j \in DOMAIN rest : rest[i].number = rest[j].number => i = j
    BY <1>1, OthersOf DEF PullsInv
<1>4. first \in PullStates /\ first.number = n /\ first.updatedAt = changes + 1
    BY <1>1 DEF Pull, PullStates
<1> HIDE DEF first, rest
<1>5. /\ open' \in Seq(PullStates) /\ Len(open') = Len(rest) + 1 /\ open'[1] = first
      /\ \A i \in 2 .. Len(rest) + 1 : open'[i] = rest[i - 1] /\ i - 1 \in DOMAIN rest
    BY <1>2, <1>3, <1>4
<1>6. \A i \in DOMAIN open' : i = 1 \/ (i - 1 \in DOMAIN rest /\ open'[i] = rest[i - 1] /\ i \in Nat)
  <2>1. DOMAIN open' = 1 .. Len(rest) + 1 /\ Len(rest) \in Nat
      BY <1>3, <1>5
  <2> QED BY <1>5, <2>1
<1>7. \A i \in DOMAIN rest : rest[i].number # n /\ rest[i] \in PullStates
    BY <1>3 DEF Numbers
<1>8. OpenOnce'
  <2> SUFFICES ASSUME NEW i \in DOMAIN open', NEW j \in DOMAIN open',
                      open'[i].number = open'[j].number
               PROVE  i = j
      BY DEF OpenOnce
  <2>1. CASE i = 1 \/ j = 1
      BY <1>4, <1>5, <1>6, <1>7, <2>1
  <2>2. CASE i # 1 /\ j # 1
    <3>1. i - 1 = j - 1 /\ i \in Nat /\ j \in Nat
        BY <1>3, <1>6, <2>2
    <3> QED BY <3>1
  <2> QED BY <2>1, <2>2
<1>9. NotAhead'
  <2>1. \A i \in DOMAIN rest :
           /\ rest[i].updatedAt <= changes /\ rest[i].updatedAt \in Nat
           /\ \A g \in DOMAIN fetch.got : fetch.got[g].number = rest[i].number =>
                                              fetch.got[g].updatedAt <= rest[i].updatedAt
      BY <1>3, <1>7 DEF PullsInv, NotAhead, PullStates
  <2>2. \A g \in DOMAIN fetch.got : fetch.got[g].updatedAt \in Nat /\ fetch.got[g].updatedAt <= changes
    <3>1. \A g \in DOMAIN fetch.got : fetch.got[g] \in PullStates
        BY <1>1
    <3> QED BY <3>1 DEF PullsInv, NotAhead, PullStates
  <2>3. ASSUME NEW j \in DOMAIN open'
        PROVE  /\ open'[j].updatedAt <= changes'
               /\ \A g \in DOMAIN fetch.got : fetch.got[g].number = open'[j].number =>
                                                  fetch.got[g].updatedAt <= open'[j].updatedAt
    <3>1. CASE j = 1
        BY <1>1, <1>2, <1>4, <1>5, <2>2, <3>1
    <3>2. CASE j # 1
        BY <1>1, <1>2, <1>6, <2>1, <3>2
    <3> QED BY <3>1, <3>2
  <2>4. \A g \in DOMAIN fetch.got : fetch.got[g].updatedAt <= changes'
      BY <1>1, <1>2, <2>2
  <2> QED BY <1>2, <2>3, <2>4 DEF NotAhead
<1>10. PullsTypes'
    BY <1>1, <1>2, <1>5 DEF PullsInv, PullsTypes
<1>11. Undisturbed' /\ SyncedViewIsCurrent'
  <2>1. fetch.since \in Nat /\ list.since \in Nat /\ fetch.since <= changes /\ list.since <= changes
      BY <1>1 DEF PullsInv, Undisturbed, FetchStates, ListStates
  <2>2. fetch'.since # changes' /\ list'.since # changes' /\ fetch'.since <= changes' /\ list'.since <= changes'
      BY <1>1, <1>2, <2>1
  <2> QED BY <1>2, <2>2 DEF PullsInv, Undisturbed, SyncedViewIsCurrent
<1>12. Chronological(fetch.got)' /\ Viewed' /\ MarkersAreOfLastSync'
    BY <1>2 DEF PullsInv, Viewed, MarkersAreOfLastSync
<1> QED BY <1>8, <1>9, <1>10, <1>11, <1>12 DEF PullsInv

LEMMA ClosePullKeeps ==
    ASSUME PullsInv, NEW n \in Pulls, ClosePull(n) PROVE PullsInv'
<1>1. /\ open \in Seq(PullStates) /\ changes \in Nat
      /\ fetch \in FetchStates /\ fetch.got \in Seq(PullStates) /\ list \in ListStates
    BY PullsAssumption DEF PullsInv, PullsTypes, FetchStates, ListStates
<1>2. /\ open' = Others(n) /\ changes' = changes + 1 /\ UNCHANGED <<fetch, list, syncs>>
    BY DEF ClosePull, Changes
<1>3. /\ open' \in Seq(PullStates)
      /\ \A i \in DOMAIN open' : \E j \in DOMAIN open : open'[i] = open[j]
      /\ \A i, j \in DOMAIN open' : open'[i].number = open'[j].number => i = j
    BY <1>1, <1>2, OthersOf DEF PullsInv
<1>4. /\ \A j \in DOMAIN open : open[j].updatedAt \in Nat
      /\ \A i \in DOMAIN fetch.got : fetch.got[i].updatedAt \in Nat
  <2>1. /\ \A j \in DOMAIN open : open[j] \in PullStates
        /\ \A i \in DOMAIN fetch.got : fetch.got[i] \in PullStates
      BY <1>1
  <2> QED BY <2>1 DEF PullStates
<1>5. NotAhead'
  <2>1. \A i \in DOMAIN fetch.got : fetch.got[i].updatedAt <= changes'
      BY <1>1, <1>2, <1>4 DEF PullsInv, NotAhead
  <2>2. ASSUME NEW j \in DOMAIN open'
        PROVE  /\ open'[j].updatedAt <= changes'
               /\ \A g \in DOMAIN fetch.got : fetch.got[g].number = open'[j].number =>
                                                  fetch.got[g].updatedAt <= open'[j].updatedAt
    <3>1. PICK k \in DOMAIN open : open'[j] = open[k]
        BY <1>3
    <3> QED BY <1>1, <1>2, <1>4, <3>1 DEF PullsInv, NotAhead
  <2> QED BY <1>2, <2>1, <2>2 DEF NotAhead
<1>6. PullsTypes' /\ OpenOnce'
    BY <1>1, <1>2, <1>3 DEF PullsInv, PullsTypes, OpenOnce
<1>7. Undisturbed' /\ SyncedViewIsCurrent'
  <2>1. fetch.since \in Nat /\ list.since \in Nat /\ fetch.since <= changes /\ list.since <= changes
      BY <1>1 DEF PullsInv, Undisturbed, FetchStates, ListStates
  <2>2. fetch'.since # changes' /\ list'.since # changes' /\ fetch'.since <= changes' /\ list'.since <= changes'
      BY <1>1, <1>2, <2>1
  <2> QED BY <1>2, <2>2 DEF PullsInv, Undisturbed, SyncedViewIsCurrent
<1>8. Chronological(fetch.got)' /\ Viewed' /\ MarkersAreOfLastSync'
    BY <1>2 DEF PullsInv, Viewed, MarkersAreOfLastSync
<1> QED BY <1>5, <1>6, <1>7, <1>8 DEF PullsInv

\* The next page is read.
LEMMA ReadPageKeeps == ASSUME PullsInv, ReadPage PROVE PullsInv'
<1> DEFINE k == fetch.page
           got == fetch.got
           stretch == PageOf(k)
           a == (k - 1) * PageSize
<1>1. /\ open \in Seq(PullStates) /\ changes \in Nat /\ k \in Nat \ {0} /\ k <= MaxPages
      /\ fetch \in FetchStates /\ got \in Seq(PullStates) /\ fetch.on /\ fetch.full
      /\ PageSize \in Nat /\ MaxPages \in Nat
    BY PullsAssumption DEF PullsInv, PullsTypes, FetchStates, ReadPage
<1>2. /\ fetch' = [fetch EXCEPT !.page = k + 1, !.got = got \o stretch, !.full = Len(stretch) = PageSize]
      /\ UNCHANGED <<open, changes, list, syncs>>
    BY DEF ReadPage
<1>3. /\ a \in Nat /\ stretch \in Seq(PullStates)
      /\ a <= Len(open) => Len(stretch) = PageSize \/ a + Len(stretch) = Len(open)
      /\ \A i \in 1 .. Len(stretch) : a + i \in DOMAIN open /\ stretch[i] = open[a + i]
    BY <1>1, PageIsStretch
<1>4. ((k + 1) - 1) * PageSize = a + PageSize
    BY <1>1
<1> HIDE DEF a, stretch, k, got
<1>5. /\ got \o stretch \in Seq(PullStates) /\ Len(got \o stretch) = Len(got) + Len(stretch)
      /\ \A i \in 1 .. Len(got) + Len(stretch) :
            (got \o stretch)[i] = IF i <= Len(got) THEN got[i] ELSE stretch[i - Len(got)]
    BY <1>1, <1>3, ConcatProperties
<1>6. /\ fetch' \in FetchStates /\ fetch'.got = got \o stretch /\ fetch'.page = k + 1
      /\ fetch'.full = (Len(stretch) = PageSize) /\ fetch'.on /\ fetch'.since = fetch.since
  <2> DEFINE full == Len(stretch) = PageSize
  <2>1. full \in BOOLEAN /\ k + 1 \in Nat \ {0} /\ fetch' = [fetch EXCEPT !.page = k + 1, !.got = got \o stretch, !.full = full]
      BY <1>1, <1>2
  <2> HIDE DEF full
  <2>2. /\ fetch' \in FetchStates /\ fetch'.got = got \o stretch /\ fetch'.page = k + 1
        /\ fetch'.full = full /\ fetch'.on = fetch.on /\ fetch'.since = fetch.since
      BY <1>1, <1>5, <2>1 DEF FetchStates
  <2> QED BY <1>1, <2>2 DEF full
<1>7. DOMAIN got = 1 .. Len(got) /\ DOMAIN stretch = 1 .. Len(stretch) /\ Len(got) \in Nat /\ Len(stretch) \in Nat
    BY <1>1, <1>3
<1>8. ASSUME NEW i \in DOMAIN (got \o stretch)
      PROVE  \/ i \in DOMAIN got /\ (got \o stretch)[i] = got[i]
             \/ /\ i - Len(got) \in DOMAIN stretch /\ i > Len(got) /\ i \in Nat
                /\ (got \o stretch)[i] = open[a + (i - Len(got))]
                /\ a + (i - Len(got)) \in DOMAIN open
  <2>1. i \in 1 .. Len(got) + Len(stretch)
      BY <1>5
  <2>2. CASE i <= Len(got)
      BY <1>5, <1>7, <2>1, <2>2
  <2>3. CASE ~(i <= Len(got))
    <3>1. i - Len(got) \in 1 .. Len(stretch) /\ (got \o stretch)[i] = stretch[i - Len(got)]
        BY <1>5, <1>7, <2>1, <2>3
    <3> QED BY <1>3, <1>7, <2>1, <2>3, <3>1
  <2> QED BY <2>2, <2>3
<1>9. /\ \A j \in DOMAIN open : open[j] \in PullStates
      /\ \A i \in DOMAIN got : got[i] \in PullStates
    BY <1>1
<1>10. Chronological(got \o stretch)
  <2> SUFFICES ASSUME NEW i \in DOMAIN (got \o stretch), NEW j \in DOMAIN (got \o stretch), i <= j,
                      (got \o stretch)[i].number = (got \o stretch)[j].number
               PROVE  (got \o stretch)[i].updatedAt <= (got \o stretch)[j].updatedAt
      BY DEF Chronological
  <2>1. CASE i \in DOMAIN got /\ (got \o stretch)[i] = got[i] /\ j \in DOMAIN got /\ (got \o stretch)[j] = got[j]
      BY <2>1 DEF PullsInv, Chronological, got
  <2>2. CASE /\ i \in DOMAIN got /\ (got \o stretch)[i] = got[i]
             /\ j > Len(got) /\ \E y \in DOMAIN open : (got \o stretch)[j] = open[y]
      BY <2>2 DEF PullsInv, NotAhead, got
  <2>3. CASE /\ i > Len(got) /\ a + (i - Len(got)) \in DOMAIN open
             /\ (got \o stretch)[i] = open[a + (i - Len(got))]
             /\ a + (j - Len(got)) \in DOMAIN open
             /\ (got \o stretch)[j] = open[a + (j - Len(got))]
    <3>1. a + (i - Len(got)) = a + (j - Len(got))
        BY <2>3 DEF PullsInv, OpenOnce
    <3> QED BY <1>9, <2>3, <3>1 DEF PullStates
  <2>4. i \in Nat /\ j \in Nat
      BY <1>5
  <2> QED BY <1>7, <1>8, <2>1, <2>2, <2>3, <2>4
<1>11. NotAhead'
  <2>1. \A i \in DOMAIN (got \o stretch) :
           /\ (got \o stretch)[i].updatedAt <= changes
           /\ \A j \in DOMAIN open : (got \o stretch)[i].number = open[j].number =>
                                         (got \o stretch)[i].updatedAt <= open[j].updatedAt
    <3> SUFFICES ASSUME NEW i \in DOMAIN (got \o stretch)
                 PROVE  /\ (got \o stretch)[i].updatedAt <= changes
                        /\ \A j \in DOMAIN open : (got \o stretch)[i].number = open[j].number =>
                                                      (got \o stretch)[i].updatedAt <= open[j].updatedAt
        OBVIOUS
    <3>1. CASE i \in DOMAIN got /\ (got \o stretch)[i] = got[i]
        BY <3>1 DEF PullsInv, NotAhead, got
    <3>2. CASE \E y \in DOMAIN open : (got \o stretch)[i] = open[y]
        BY <1>9, <3>2 DEF PullsInv, NotAhead, OpenOnce, PullStates
    <3> QED BY <1>8, <3>1, <3>2
  <2> QED BY <1>2, <1>6, <2>1 DEF PullsInv, NotAhead
<1>12. Undisturbed'
  <2>1. fetch'.page <= MaxPages + 1
      BY <1>1, <1>6 DEF k
  <2>2. ASSUME fetch.since = changes
        PROVE  /\ Len(got \o stretch) <= Len(open)
               /\ \A i \in 1 .. Len(got \o stretch) : (got \o stretch)[i] = open[i]
               /\ Len(got \o stretch) = IF fetch'.full THEN ((k + 1) - 1) * PageSize ELSE Len(open)
    <3>1. /\ Len(got) <= Len(open) /\ Len(got) = a
          /\ \A i \in 1 .. Len(got) : got[i] = open[i]
        BY <1>1, <2>2 DEF PullsInv, Undisturbed, got, a, k
    <3>2. \A i \in 1 .. Len(got \o stretch) : (got \o stretch)[i] = open[i] /\ i \in DOMAIN open
      <4> SUFFICES ASSUME NEW i \in 1 .. Len(got \o stretch)
                   PROVE  (got \o stretch)[i] = open[i] /\ i \in DOMAIN open
          OBVIOUS
      <4>1. i \in DOMAIN (got \o stretch) /\ Len(open) \in Nat /\ DOMAIN open = 1 .. Len(open)
          BY <1>1, <1>5
      <4>2. CASE i \in DOMAIN got /\ (got \o stretch)[i] = got[i]
          BY <1>7, <3>1, <4>1, <4>2
      <4>3. CASE i \in Nat /\ (got \o stretch)[i] = open[a + (i - Len(got))] /\ a + (i - Len(got)) \in DOMAIN open
        <5>1. a + (i - Len(got)) = i
            BY <1>3, <1>7, <3>1, <4>3
        <5> QED BY <4>3, <5>1
      <4> QED BY <1>8, <4>1, <4>2, <4>3
    <3>3. a + Len(stretch) <= Len(open)
      <4>1. CASE Len(stretch) = 0
          BY <1>3, <3>1, <4>1
      <4>2. CASE Len(stretch) # 0
        <5>1. Len(stretch) \in 1 .. Len(stretch)
            BY <1>7, <4>2
        <5>2. a + Len(stretch) \in DOMAIN open
            BY <1>3, <5>1
        <5> QED BY <1>1, <5>2
      <4> QED BY <4>1, <4>2
    <3>4. Len(got \o stretch) = a + Len(stretch)
        BY <1>5, <3>1
    <3>5. Len(stretch) = PageSize \/ a + Len(stretch) = Len(open)
        BY <1>3, <3>1
    <3>6. CASE Len(stretch) = PageSize
        BY <1>4, <1>6, <3>2, <3>3, <3>4, <3>6
    <3>7. CASE Len(stretch) # PageSize
        BY <1>6, <3>2, <3>3, <3>4, <3>5, <3>7
    <3> QED BY <3>6, <3>7
  <2> QED BY <1>2, <1>6, <2>1, <2>2 DEF PullsInv, Undisturbed
<1>13. PullsTypes' /\ OpenOnce' /\ Viewed' /\ SyncedViewIsCurrent' /\ MarkersAreOfLastSync'
    BY <1>2, <1>6 DEF PullsInv, PullsTypes, OpenOnce, Viewed, SyncedViewIsCurrent, MarkersAreOfLastSync
<1> QED BY <1>6, <1>10, <1>11, <1>12, <1>13 DEF PullsInv

\* A whole list is in: what it is, if nothing has changed since it was begun.
LEMMA AllRead ==
    ASSUME PullsInv, ReadAll, fetch.since = changes
    PROVE  /\ IsPrefix(fetch.got, open)
           /\ Len(fetch.got) \in {Len(open), PageSize * MaxPages}
<1>1. /\ open \in Seq(PullStates) /\ fetch.got \in Seq(PullStates)
      /\ fetch.page \in Nat /\ PageSize \in Nat /\ MaxPages \in Nat /\ fetch.full \in BOOLEAN
    BY PullsAssumption DEF PullsInv, PullsTypes, FetchStates
<1>2. /\ Len(fetch.got) <= Len(open) /\ fetch.page <= MaxPages + 1
      /\ \A i \in 1 .. Len(fetch.got) : fetch.got[i] = open[i]
      /\ Len(fetch.got) = IF fetch.full THEN (fetch.page - 1) * PageSize ELSE Len(open)
    BY DEF PullsInv, Undisturbed, ReadAll
<1>3. Len(fetch.got) \in {Len(open), PageSize * MaxPages}
  <2>1. CASE ~fetch.full
      BY <1>2, <2>1
  <2>2. CASE fetch.full
    <3>1. fetch.page > MaxPages
        BY <2>2 DEF ReadAll
    <3>2. fetch.page - 1 = MaxPages
        BY <1>1, <1>2, <3>1
    <3>3. (fetch.page - 1) * PageSize = PageSize * MaxPages
        BY <1>1, <3>2
    <3> QED BY <1>2, <2>2, <3>3
  <2> QED BY <1>1, <2>1, <2>2
<1>4. IsPrefix(fetch.got, open)
  <2> DEFINE n == Len(fetch.got)
  <2>1. n \in Nat /\ n <= Len(open) /\ \A i \in 1 .. n : fetch.got[i] \in PullStates /\ open[i] \in PullStates
      BY <1>1, <1>2
  <2>2. /\ SubSeq(fetch.got, 1, n) \in Seq(PullStates) /\ Len(SubSeq(fetch.got, 1, n)) = n
        /\ \A i \in 1 .. n : SubSeq(fetch.got, 1, n)[i] = fetch.got[i]
      BY <1>1, <2>1
  <2>3. /\ SubSeq(open, 1, n) \in Seq(PullStates) /\ Len(SubSeq(open, 1, n)) = n
        /\ \A i \in 1 .. n : SubSeq(open, 1, n)[i] = open[i]
      BY <1>1, <2>1
  <2>4. SubSeq(fetch.got, 1, n) = SubSeq(open, 1, n)
      BY <1>2, <2>2, <2>3, SeqEqual
  <2> QED BY <1>2, <2>4 DEF IsPrefix
<1> QED BY <1>3, <1>4

\* The fetch is over, or a new one begins.
LEMMA FetchAnew ==
    ASSUME PullsInv, UNCHANGED <<open, changes>>, fetch' = NoFetch \/ Start,
           list' \in ListStates, list'.since <= changes, syncs' \in Nat,
           Viewed', SyncedViewIsCurrent', MarkersAreOfLastSync'
    PROVE  PullsInv'
<1>1. /\ open \in Seq(PullStates) /\ changes \in Nat /\ MaxPages \in Nat /\ PageSize \in Nat
    BY PullsAssumption DEF PullsInv, PullsTypes
<1>2. /\ fetch' \in FetchStates /\ fetch'.page = 1 /\ fetch'.got = << >> /\ fetch'.full = TRUE
      /\ fetch'.since <= changes
  <2>1. << >> \in Seq(PullStates)
      OBVIOUS
  <2>2. CASE fetch' = NoFetch
      BY <1>1, <2>1, <2>2 DEF NoFetch, FetchStates
  <2>3. CASE Start
    <3>1. fetch' = [on |-> TRUE, page |-> 1, got |-> << >>, full |-> TRUE, since |-> changes]
        BY <2>3 DEF Start, NoFetch
    <3> QED BY <1>1, <2>1, <3>1 DEF FetchStates
  <2> QED BY <2>2, <2>3
<1>3. PullsTypes' /\ OpenOnce'
    BY <1>1, <1>2 DEF PullsInv, PullsTypes, OpenOnce
<1>4. NotAhead' /\ Chronological(fetch.got)'
    BY <1>2 DEF PullsInv, NotAhead, Chronological
<1>5. Undisturbed'
  <2>1. Len(fetch'.got) = 0 /\ (fetch'.page - 1) * PageSize = 0 /\ Len(open) \in Nat
      BY <1>1, <1>2
  <2> QED BY <1>1, <1>2, <2>1 DEF Undisturbed
<1> QED BY <1>3, <1>4, <1>5 DEF PullsInv

\* The view stays as it is.
LEMMA ViewStays ==
    ASSUME PullsInv, UNCHANGED <<open, changes>>,
           list' \in ListStates, list'.since = list.since, list'.changed = list.changed,
           list'.pulls = list.pulls, list'.prev = list.prev,
           list'.stage = list.stage \/ list'.stage = "left"
    PROVE  /\ list'.since <= changes
           /\ Viewed' /\ SyncedViewIsCurrent' /\ MarkersAreOfLastSync'
<1>1. list.since <= changes
    BY DEF PullsInv, Undisturbed
<1>2. Viewed' /\ MarkersAreOfLastSync'
    BY DEF PullsInv, Viewed, MarkersAreOfLastSync
<1>3. SyncedViewIsCurrent'
    BY DEF PullsInv, SyncedViewIsCurrent
<1> QED BY <1>1, <1>2, <1>3

LEMMA FirstPaintKeeps == ASSUME PullsInv, FirstPaint PROVE PullsInv'
<1>1. /\ fetch.got \in Seq(PullStates) /\ list \in ListStates /\ fetch \in FetchStates /\ syncs \in Nat
    BY DEF PullsInv, PullsTypes, FetchStates
<1>2. /\ list' = [list EXCEPT !.stage = "here", !.pulls = fetch.got, !.prev = fetch.got,
                              !.fresh = TRUE, !.since = fetch.since]
      /\ fetch' = NoFetch /\ UNCHANGED <<open, changes, syncs>> /\ ReadAll /\ list.stage = "before"
    BY DEF FirstPaint
<1>3. /\ list' \in ListStates /\ list'.stage = "here" /\ list'.pulls = fetch.got
      /\ list'.prev = fetch.got /\ list'.since = fetch.since /\ list'.changed = list.changed
    BY <1>1, <1>2 DEF ListStates, FetchStates
<1>4. list'.since <= changes /\ list.changed = {} /\ Chronological(fetch.got)
    BY <1>2, <1>3 DEF PullsInv, Undisturbed, Viewed
<1>5. Viewed'
    BY <1>3, <1>4 DEF Viewed
<1>6. SyncedViewIsCurrent'
    BY <1>2, <1>3, AllRead DEF SyncedViewIsCurrent
<1>7. MarkersAreOfLastSync'
    BY <1>1, <1>3, <1>4, NothingNew DEF MarkersAreOfLastSync
<1> QED BY <1>1, <1>2, <1>3, <1>4, <1>5, <1>6, <1>7, FetchAnew

\* A sync is answered: the view is what it read, whether it is written or not.
LEMMA SyncDoneKeeps == ASSUME PullsInv, SyncDone PROVE PullsInv'
<1> DEFINE l == Synced(list, fetch.got)
           l2 == [l EXCEPT !.status = "idle", !.fresh = TRUE, !.since = fetch.since, !.prev = list.pulls]
<1>1. /\ fetch.got \in Seq(PullStates) /\ list \in ListStates /\ fetch \in FetchStates /\ syncs \in Nat
      /\ list.pulls \in Seq(PullStates)
    BY DEF PullsInv, PullsTypes, FetchStates, ListStates
<1>2. /\ fetch' = NoFetch /\ UNCHANGED <<open, changes, syncs>> /\ ReadAll /\ list.stage # "before"
      /\ list' = IF list.stage = "here" THEN l2 ELSE list
    BY DEF SyncDone, Arrives
<1>3. CASE list.stage # "here"
    BY <1>1, <1>2, <1>3, ViewStays, FetchAnew
<1>4. CASE list.stage = "here"
  <2>1. diffChanges(list.pulls, fetch.got) \subseteq [number : Nat, as : {"new", "updated"}]
    <3>1. \A p \in Range(fetch.got) : p.number \in Nat
      <4>1. \A i \in DOMAIN fetch.got : fetch.got[i] \in PullStates
          BY <1>1
      <4> QED BY <4>1 DEF Range, PullStates
    <3> QED BY <3>1 DEF diffChanges
  <2>2. /\ l \in ListStates /\ l.pulls = fetch.got /\ l.stage = "here"
        /\ l.changed = diffChanges(list.pulls, fetch.got)
    <3>1. CASE list.pulls = fetch.got /\ list.changed = {}
      <4>1. Chronological(fetch.got)
          BY DEF PullsInv
      <4>2. diffChanges(fetch.got, fetch.got) = {}
          BY <1>1, <4>1, NothingNew
      <4>3. l = list
          BY <3>1 DEF Synced
      <4> QED BY <1>1, <1>4, <3>1, <4>2, <4>3
    <3>2. CASE ~(list.pulls = fetch.got /\ list.changed = {})
      <4>1. l = [list EXCEPT !.pulls = fetch.got, !.changed = diffChanges(list.pulls, fetch.got)]
          BY <3>2 DEF Synced
      <4> QED BY <1>1, <1>4, <2>1, <4>1 DEF ListStates
    <3> QED BY <3>1, <3>2
  <2> HIDE DEF l
  <2>3. /\ list' \in ListStates /\ list'.stage = "here" /\ list'.pulls = fetch.got
        /\ list'.prev = list.pulls /\ list'.since = fetch.since
        /\ list'.changed = diffChanges(list.pulls, fetch.got)
      BY <1>1, <1>2, <1>4, <2>2 DEF ListStates, FetchStates
  <2>4. list'.since <= changes /\ Chronological(fetch.got)
      BY <2>3 DEF PullsInv, Undisturbed
  <2>5. Viewed' /\ MarkersAreOfLastSync'
      BY <2>3, <2>4 DEF Viewed, MarkersAreOfLastSync
  <2>6. SyncedViewIsCurrent'
      BY <1>2, <2>3, AllRead DEF SyncedViewIsCurrent
  <2> QED BY <1>1, <1>2, <2>3, <2>4, <2>5, <2>6, FetchAnew
<1> QED BY <1>3, <1>4

LEMMA PullsNextKeeps == ASSUME PullsInv, [PullsNext]_pullsVars PROVE PullsInv'
<1>1. list \in ListStates /\ syncs \in Nat /\ changes \in Nat
    BY DEF PullsInv, PullsTypes
<1>2. CASE \E n \in Pulls : OpenOrUpdate(n) \/ ClosePull(n)
    BY <1>2, OpenOrUpdateKeeps, ClosePullKeeps
<1>3. CASE ReadPage
    BY <1>3, ReadPageKeeps
<1>4. CASE FirstPaint
    BY <1>4, FirstPaintKeeps
<1>5. CASE SyncDone
    BY <1>5, SyncDoneKeeps
<1>6. CASE RepoPullsPage
    BY <1>1, <1>6, ViewStays, FetchAnew DEF RepoPullsPage
<1>7. CASE NoPaint
  <2>1. list' = [list EXCEPT !.stage = "left"] /\ fetch' = NoFetch /\ UNCHANGED <<open, changes, syncs>>
      BY <1>7 DEF NoPaint
  <2>2. /\ list' \in ListStates /\ list'.since = list.since /\ list'.changed = list.changed
        /\ list'.pulls = list.pulls /\ list'.prev = list.prev /\ list'.stage = "left"
      BY <1>1, <2>1 DEF ListStates
  <2> QED BY <1>1, <2>1, <2>2, ViewStays, FetchAnew
<1>8. CASE Sync
  <2>1. list' = [list EXCEPT !.status = "syncing"] /\ Start /\ UNCHANGED <<open, changes>> /\ syncs' \in Nat
      BY <1>1, <1>8 DEF Sync
  <2>2. /\ list' \in ListStates /\ list'.since = list.since /\ list'.changed = list.changed
        /\ list'.pulls = list.pulls /\ list'.prev = list.prev /\ list'.stage = list.stage
      BY <1>1, <2>1 DEF ListStates
  <2> QED BY <2>1, <2>2, ViewStays, FetchAnew
<1>9. CASE Reauthenticate \/ SyncFails
  <2>1. /\ list' \in {list, [list EXCEPT !.status = "idle", !.login = TRUE], [list EXCEPT !.status = "error"]}
        /\ fetch' = NoFetch /\ UNCHANGED <<open, changes, syncs>>
      BY <1>9 DEF Reauthenticate, SyncFails, Arrives
  <2>2. /\ list' \in ListStates /\ list'.since = list.since /\ list'.changed = list.changed
        /\ list'.pulls = list.pulls /\ list'.prev = list.prev /\ list'.stage = list.stage
      BY <1>1, <2>1 DEF ListStates
  <2> QED BY <1>1, <2>1, <2>2, ViewStays, FetchAnew
<1>10. CASE TenSecondsPass \/ LeavePulls \/ UNCHANGED pullsVars
  <2>1. /\ list' \in {list, [list EXCEPT !.fresh = FALSE], [list EXCEPT !.stage = "left"]}
        /\ UNCHANGED <<open, changes, fetch, syncs>>
      BY <1>10 DEF TenSecondsPass, LeavePulls, pullsVars
  <2>2. /\ list' \in ListStates /\ list'.since = list.since /\ list'.changed = list.changed
        /\ list'.pulls = list.pulls /\ list'.prev = list.prev
        /\ list'.stage = list.stage \/ list'.stage = "left"
      BY <1>1, <2>1 DEF ListStates
  <2>3. Viewed' /\ SyncedViewIsCurrent' /\ MarkersAreOfLastSync'
      BY <2>1, <2>2, ViewStays
  <2> QED BY <2>1, <2>2, <2>3
          DEF PullsInv, PullsTypes, OpenOnce, NotAhead, Undisturbed
<1> QED BY <1>2, <1>3, <1>4, <1>5, <1>6, <1>7, <1>8, <1>9, <1>10
        DEF PullsNext, Refocus10s, Refresh

\* A sync during which nothing changed brings the view in step with GitHub, and
\* it stays so until something changes.
THEOREM SyncConverges == PullsSpec => []SyncedViewIsCurrent
<1>1. PullsInv => SyncedViewIsCurrent
    BY DEF PullsInv
<1> QED BY <1>1, PullsInitKeeps, PullsNextKeeps, PTL DEF PullsSpec

\* The markers are those of the last sync, also when it wrote nothing.
THEOREM MarkersFollowSyncs == PullsSpec => []MarkersAreOfLastSync
<1>1. PullsInv => MarkersAreOfLastSync
    BY DEF PullsInv
<1> QED BY <1>1, PullsInitKeeps, PullsNextKeeps, PTL DEF PullsSpec

\* An answer that comes after the list was left changes nothing in it, and does
\* not send the reviewer to the sign-in (genRef, mountedRef).
THEOREM LeftListIsQuiet == PullsSpec => LeftPageIsQuiet
<1>1. ASSUME [PullsNext]_pullsVars PROVE [list.stage = "left" => UNCHANGED list]_pullsVars
  <2>1. ASSUME PullsNext, list.stage = "left" PROVE list' = list
    <3>1. "left" # "here" /\ "left" # "before"
        OBVIOUS
    <3>2. CASE SyncDone \/ Reauthenticate \/ SyncFails
        BY <2>1, <3>1, <3>2 DEF SyncDone, Reauthenticate, SyncFails, Arrives
    <3>3. CASE \E n \in Pulls : OpenOrUpdate(n) \/ ClosePull(n)
        BY <3>3 DEF OpenOrUpdate, ClosePull, Changes
    <3>4. CASE ReadPage
        BY <3>4 DEF ReadPage
    <3>5. CASE RepoPullsPage \/ FirstPaint \/ NoPaint \/ LeavePulls
        BY <2>1, <3>1, <3>5 DEF RepoPullsPage, FirstPaint, NoPaint, LeavePulls
    <3>6. CASE Refocus10s \/ Refresh \/ TenSecondsPass
        BY <2>1, <3>1, <3>6 DEF Refocus10s, Refresh, Sync, TenSecondsPass
    <3> QED BY <2>1, <3>2, <3>3, <3>4, <3>5, <3>6 DEF PullsNext
  <2> QED BY <1>1, <2>1
<1> QED BY <1>1, PTL DEF PullsSpec, LeftPageIsQuiet

-----------------------------------------------------------------------------
(* The translation of a deck.  The invariant is stated of a pool of        *)
(* workers, since a step replaces the whole of it.                         *)

PoolType(p) ==
    /\ p \in [cards : Seq(Prose), cursor : Nat \ {0},
              hand : [Workers -> [index : Nat, stage : Stages]], out : Seq(Texts)]
    /\ Len(p.out) = Len(p.cards)

\* What a worker has in hand was drawn: the cursor is past it.
Drawn(p) == \A w \in Busy(p) : p.hand[w].index \in DOMAIN p.cards /\ p.hand[w].index < p.cursor

\* EveryCardOnce of a pool.
Once(p) ==
    /\ \A v, w \in Busy(p) : p.hand[v].index = p.hand[w].index => v = w
    /\ \A i \in DOMAIN p.cards :
          p.out[i] = Pending <=> \/ i >= p.cursor
                                 \/ \E w \in Busy(p) : p.hand[w].index = i

\* NoPromptLost of a pool.
Whole(p) == \A i \in DOMAIN p.cards : p.out[i] # Pending => p.out[i].prompts = p.cards[i].prompts

Sound(p) == PoolType(p) /\ Drawn(p) /\ Once(p) /\ Whole(p)

CacheType == cache \in [Fingerprints -> Rows] /\ renders \in 0 .. MaxRenders

TranslationInv == CacheType /\ Sound(pool)

-----------------------------------------------------------------------------
LEMMA BusyWorkers == ASSUME NEW p, PoolType(p), NEW w
                     PROVE  w \in Busy(p) <=> w \in Workers /\ p.hand[w].stage # "rest"
    BY DEF PoolType, Busy

LEMMA CardInHand ==
    ASSUME Sound(pool), NEW w \in Busy(pool)
    PROVE  CardOf(w) \in Prose /\ w \in Workers /\ pool.hand[w].index \in 1 .. Len(pool.cards)
    BY BusyWorkers DEF Sound, Drawn, PoolType, CardOf

LEMMA TextTypes ==
    ASSUME NEW card \in Prose, NEW n \in Counts
    PROVE  /\ English(card) \in Texts /\ English(card) # Pending
           /\ English(card).prompts = card.prompts
           /\ Translated(n) \in Texts /\ Translated(n) # Pending /\ Translated(n).prompts = n
<1>1. English(card).lang = "en" /\ Translated(n).lang = "other" /\ Pending.lang = "none"
    BY DEF English, Translated, Pending
<1> QED BY <1>1 DEF English, Translated, Texts, Prose

\* A pass starts with the first cards in hand and nothing handed in.
LEMMA StartedIsSound ==
    ASSUME NEW cards \in Seq(Prose)
    PROVE  Sound(Started(cards))
<1> DEFINE k == IF Limit < Len(cards) THEN Limit ELSE Len(cards)
           p == Started(cards)
<1>1. k \in Nat /\ k <= Limit /\ k <= Len(cards)
    BY LocalizationAssumption
<1>2. Cardinality(1 .. k) = k
    BY <1>1, FS_Interval
<1>3. p = [cards |-> cards, cursor |-> k + 1,
           hand |-> [w \in Workers |-> IF w \in 1 .. k THEN Item(w, "get") ELSE Rest],
           out |-> [i \in DOMAIN cards |-> Pending]]
    BY <1>2 DEF Started
<1> HIDE DEF k, p
<1>4. PoolType(p)
  <2>1. Pending \in Texts
      BY LocalizationAssumption DEF Pending, Texts, Counts
  <2>2. p.out \in Seq(Texts) /\ Len(p.out) = Len(cards)
      BY <1>3, <2>1
  <2>3. p.hand \in [Workers -> [index : Nat, stage : Stages]]
      BY <1>1, <1>3 DEF Workers, Item, Rest, Stages
  <2> QED BY <1>1, <1>3, <2>2, <2>3 DEF PoolType
<1>5. \A w : w \in Busy(p) <=> w \in 1 .. k
    BY <1>1, <1>3, LocalizationAssumption DEF Busy, Item, Rest, Workers
<1>6. \A w \in 1 .. k : p.hand[w].index = w
    BY <1>1, <1>3, LocalizationAssumption DEF Item, Workers
<1>7. /\ p.cards = cards /\ p.cursor = k + 1 /\ DOMAIN cards = 1 .. Len(cards)
      /\ \A i \in DOMAIN cards : p.out[i] = Pending
    BY <1>3
<1>8. Drawn(p)
    BY <1>1, <1>5, <1>6, <1>7 DEF Drawn
<1>9. Once(p)
    BY <1>1, <1>5, <1>6, <1>7 DEF Once
<1>10. Whole(p)
    BY <1>7 DEF Whole
<1> QED BY <1>4, <1>8, <1>9, <1>10 DEF Sound, p

\* A worker that hands in a text with all prompts and draws the next card.
LEMMA FinishedIsSound ==
    ASSUME Sound(pool), NEW w \in Busy(pool), NEW text \in Texts,
           text # Pending, text.prompts = CardOf(w).prompts
    PROVE  Sound(Finished(pool, w, text))
<1> DEFINE p == pool
           q == Finished(pool, w, text)
           i == p.hand[w].index
           item == IF p.cursor <= Len(p.cards) THEN Item(p.cursor, "get") ELSE Rest
<1>1. PoolType(p) /\ Drawn(p) /\ Once(p) /\ Whole(p) /\ w \in Workers /\ i \in 1 .. Len(p.cards)
    BY CardInHand DEF Sound
<1>2. item \in [index : Nat, stage : Stages]
    BY <1>1 DEF PoolType, Item, Rest, Stages
<1>3. q = [cards |-> p.cards, cursor |-> p.cursor + 1,
           hand |-> [p.hand EXCEPT ![w] = item], out |-> [p.out EXCEPT ![i] = text]]
  <2>1. q = [[[p EXCEPT !.out = [@ EXCEPT ![i] = text]] EXCEPT !.hand = [@ EXCEPT ![w] = item]]
               EXCEPT !.cursor = @ + 1]
      BY <1>1 DEF PoolType, Finished
  <2> QED BY <1>1, <2>1 DEF PoolType
<1> HIDE DEF q, item
<1>4. PoolType(q)
    BY <1>1, <1>2, <1>3 DEF PoolType
<1>5. /\ \A v \in Workers \ {w} : q.hand[v] = p.hand[v]
      /\ q.hand[w] = item
      /\ DOMAIN q.cards = 1 .. Len(p.cards) /\ DOMAIN p.cards = 1 .. Len(p.cards)
    BY <1>1, <1>3 DEF PoolType
<1>6. /\ p.cursor <= Len(p.cards) => item.stage # "rest" /\ item.index = p.cursor
      /\ p.cursor > Len(p.cards) => item.stage = "rest"
      /\ p.cursor \in Nat
    BY <1>1 DEF item, PoolType, Item, Rest
<1>7. \A v : v \in Busy(q) <=> \/ v \in Busy(p) /\ v # w
                               \/ v = w /\ p.cursor <= Len(p.cards)
    BY <1>1, <1>4, <1>5, <1>6, BusyWorkers
<1>8. \A v \in Busy(q) : \/ v # w /\ v \in Busy(p) /\ q.hand[v].index = p.hand[v].index
                         \/ v = w /\ q.hand[v].index = p.cursor /\ p.cursor <= Len(p.cards)
    BY <1>1, <1>5, <1>6, <1>7, BusyWorkers
<1>9. Drawn(q)
  <2> SUFFICES ASSUME NEW v \in Busy(q)
               PROVE  q.hand[v].index \in DOMAIN q.cards /\ q.hand[v].index < q.cursor
      BY DEF Drawn
  <2>1. q.cursor = p.cursor + 1 /\ p.cursor \in Nat \ {0}
      BY <1>1, <1>3 DEF PoolType
  <2> QED BY <1>1, <1>5, <1>8, <2>1 DEF Drawn, PoolType
<1>10. Once(q)
  <2>1. ASSUME NEW u \in Busy(q), NEW v \in Busy(q), q.hand[u].index = q.hand[v].index
        PROVE  u = v
      BY <1>1, <1>6, <1>8, <2>1 DEF Once, Drawn
  <2>2. ASSUME NEW j \in DOMAIN q.cards
        PROVE  q.out[j] = Pending <=> \/ j >= q.cursor
                                      \/ \E v \in Busy(q) : q.hand[v].index = j
    <3>1. q.out[j] = (IF j = i THEN text ELSE p.out[j]) /\ q.cursor = p.cursor + 1
        BY <1>1, <1>3, <1>5 DEF PoolType
    <3>2. CASE j = i
      <4>1. i < p.cursor /\ \A v \in Busy(q) : q.hand[v].index # i
          BY <1>1, <1>6, <1>8 DEF Once, Drawn
      <4> QED BY <1>1, <1>6, <3>1, <3>2, <4>1
    <3>3. CASE j # i
      <4>1. p.out[j] = Pending <=> j >= p.cursor \/ \E v \in Busy(p) : p.hand[v].index = j
          BY <1>1, <1>5 DEF Once
      <4>2. (\E v \in Busy(q) : q.hand[v].index = j)
              <=> j = p.cursor \/ \E v \in Busy(p) : p.hand[v].index = j
          BY <1>1, <1>5, <1>6, <1>7, <1>8, <3>3 DEF Drawn
      <4> QED BY <1>5, <1>6, <3>1, <3>3, <4>1, <4>2
    <3> QED BY <3>2, <3>3
  <2> QED BY <2>1, <2>2 DEF Once
<1>11. Whole(q)
    BY <1>1, <1>3, <1>5 DEF Whole, PoolType, CardOf
<1> QED BY <1>4, <1>9, <1>10, <1>11 DEF Sound, q

\* A worker that goes on with the card it has.
LEMMA GotoIsSound ==
    ASSUME Sound(pool), NEW w \in Busy(pool), NEW stage \in Stages \ {"rest"}, Goto(w, stage)
    PROVE  Sound(pool')
<1>1. PoolType(pool) /\ w \in Workers
    BY CardInHand DEF Sound
<1>2. PoolType(pool')
    BY <1>1 DEF PoolType, Goto, Stages
<1>3. /\ pool'.cards = pool.cards /\ pool'.out = pool.out /\ pool'.cursor = pool.cursor
      /\ \A v \in Workers : pool'.hand[v].index = pool.hand[v].index
      /\ \A v \in Workers : (pool'.hand[v].stage # "rest") <=> (pool.hand[v].stage # "rest")
    BY <1>1, BusyWorkers DEF PoolType, Goto
<1>4. \A v : v \in Busy(pool') <=> v \in Busy(pool)
    BY <1>1, <1>2, <1>3, BusyWorkers
<1> QED BY <1>1, <1>2, <1>3, <1>4, BusyWorkers DEF Sound, Drawn, Once, Whole
-----------------------------------------------------------------------------
LEMMA InitIsSound ==
    ASSUME LocalizationInit
    PROVE  TranslationInv
<1>1. << >> \in Seq(Prose)
    OBVIOUS
<1>2. Sound(Started(<< >>))
    BY <1>1, StartedIsSound
<1>3. Sound(pool)
    BY <1>2 DEF LocalizationInit
<1>4. CacheType
    BY LocalizationAssumption DEF LocalizationInit, CacheType
<1> QED BY <1>3, <1>4 DEF TranslationInv

LEMMA NextIsSound ==
    ASSUME TranslationInv, [LocalizationNext]_localizationVars
    PROVE  TranslationInv'
<1>1. CASE LocalizeCards
  <2>1. PICK cards \in Decks : pool' = Started(cards)
      BY <1>1 DEF LocalizeCards
  <2>2. Sound(pool')
      BY <2>1, StartedIsSound, LocalizationAssumption
  <2>3. CacheType'
      BY <1>1, LocalizationAssumption DEF LocalizeCards, TranslationInv, CacheType
  <2> QED BY <2>2, <2>3 DEF TranslationInv, Sound, PoolType, Drawn, Once, Whole, Busy
<1>2. ASSUME NEW w, ReadCache(w) \/ Translate(w) \/ SaveTranslation(w), UNCHANGED renders
      PROVE  TranslationInv'
  <2>1. /\ w \in Busy(pool) /\ Sound(pool) /\ CardOf(w) \in Prose
        /\ CardOf(w).fp \in Fingerprints /\ CardOf(w).prompts \in Counts
      BY <1>2, CardInHand DEF ReadCache, Translate, SaveTranslation, At, TranslationInv, Prose
  <2>2. ASSUME NEW text, HandIn(w, text),
               text = English(CardOf(w)) \/ text = Translated(CardOf(w).prompts)
        PROVE  Sound(pool')
      BY <2>1, <2>2, TextTypes, FinishedIsSound DEF HandIn
  <2>3. ASSUME NEW stage \in {"translate", "save"}, Goto(w, stage)
        PROVE  Sound(pool')
      BY <2>1, <2>3, GotoIsSound DEF Stages
  <2>4. CASE ReadCache(w)
      BY <2>1, <2>2, <2>3, <2>4, <1>2
         DEF ReadCache, preservesSuggestionCount, TranslationInv, CacheType, Rows
  <2>5. CASE Translate(w)
      BY <2>1, <2>2, <2>3, <2>5, <1>2 DEF Translate, preservesSuggestionCount, TranslationInv, CacheType
  <2>6. CASE SaveTranslation(w)
    <3>1. Sound(pool')
        BY <2>2, <2>6 DEF SaveTranslation
    <3>2. CacheType'
        BY <1>2, <2>1, <2>6 DEF SaveTranslation, TranslationInv, CacheType, Rows
    <3> QED BY <3>1, <3>2 DEF TranslationInv
  <2> QED BY <1>2, <2>4, <2>5, <2>6
<1>3. CASE UNCHANGED localizationVars
    BY <1>3 DEF localizationVars, TranslationInv, CacheType, Sound, PoolType, Drawn, Once, Whole, Busy
<1> QED BY <1>1, <1>2, <1>3 DEF LocalizationNext

\* The pool, its texts and the cache are well typed, for any deck and limit.
THEOREM LocalizationTypeCorrect == LocalizationSpec => []LocalizationTypeOK
<1>1. TranslationInv => LocalizationTypeOK
    BY DEF TranslationInv, CacheType, Sound, PoolType, LocalizationTypeOK
<1> QED BY <1>1, InitIsSound, NextIsSound, PTL DEF LocalizationSpec

\* mapWithConcurrency: whatever the limit, the number of cards and the order
\* in which the calls come back, no card is drawn twice, skipped or left out.
THEOREM CardsOnce == LocalizationSpec => []EveryCardOnce
<1>1. TranslationInv => EveryCardOnce
    BY DEF TranslationInv, Sound, Once, EveryCardOnce
<1> QED BY <1>1, InitIsSound, NextIsSound, PTL DEF LocalizationSpec

\* No translation that lists fewer or more prompts than the stored card is
\* shown, from the cache or from the provider.
THEOREM PromptsKept == LocalizationSpec => []NoPromptLost
<1>1. TranslationInv => NoPromptLost
    BY DEF TranslationInv, Sound, Whole, NoPromptLost
<1> QED BY <1>1, InitIsSound, NextIsSound, PTL DEF LocalizationSpec

-----------------------------------------------------------------------------
(* The tab and its pages.                                                  *)

LEMMA TabStepsOnThePicker == ASSUME [TabNext]_tabVars PROVE [PickerNext]_pickerVars
    BY DEF TabNext, tabVars, OnPicker, OnPulls, OnRender, OnReviews, OnDeck, FollowLink,
           BackToReviews

LEMMA TabStepsOnThePulls == ASSUME [TabNext]_tabVars PROVE [PullsNext]_pullsVars
    BY DEF TabNext, tabVars, OnPicker, OnPulls, OnRender, OnReviews, OnDeck, FollowLink,
           BackToReviews

LEMMA TabStepsOfARender == ASSUME [TabNext]_tabVars PROVE [LocalizationNext]_localizationVars
    BY DEF TabNext, tabVars, OnPicker, OnPulls, OnRender, OnReviews, OnDeck, FollowLink,
           BackToReviews

LEMMA TabStepsOnTheDeck == ASSUME [TabNext]_tabVars PROVE [DeckPageNext]_deckPageVars
<1>1. CASE OnReviews
    BY <1>1, ListingLeavesTheDeck DEF OnReviews, DeckPageNext, Loads
<1>2. CASE FollowLink \/ BackToReviews
    BY <1>2 DEF FollowLink, BackToReviews, DeckPageNext, Loads, Works
<1>3. CASE OnPicker \/ OnPulls \/ OnRender \/ OnDeck \/ UNCHANGED tabVars
    BY <1>3 DEF OnPicker, OnPulls, OnRender, OnDeck, tabVars, dashboardVars
<1> QED BY <1>1, <1>2, <1>3 DEF TabNext

\* Whatever page a tab shows and however it goes from one to the next, each page
\* takes only the steps it takes alone (the pages share the router and the
\* session only).
THEOREM TabRunsItsPages ==
    TabSpec => DeckPageSpec /\ LocalizationSpec /\ PickerSpec /\ PullsSpec
<1>1. TabInit => DeckPageInit /\ LocalizationInit /\ PickerInit /\ PullsInit
    BY DEF TabInit, DashboardInit
<1>2. [TabNext]_tabVars => [DeckPageNext]_deckPageVars
    BY TabStepsOnTheDeck
<1>3. [TabNext]_tabVars => [LocalizationNext]_localizationVars
    BY TabStepsOfARender
<1>4. [TabNext]_tabVars => [PickerNext]_pickerVars
    BY TabStepsOnThePicker
<1>5. [TabNext]_tabVars => [PullsNext]_pullsVars
    BY TabStepsOnThePulls
<1> QED BY <1>1, <1>2, <1>3, <1>4, <1>5, PTL
        DEF TabSpec, DeckPageSpec, LocalizationSpec, PickerSpec, PullsSpec

LEMMA TabStepsOnTheDashboard == ASSUME [TabNext]_tabVars PROVE DashboardStep
    BY DEF DashboardStep, dashboardVars, TabNext, tabVars, OnPicker, OnPulls, OnRender, OnReviews,
           OnDeck, FollowLink, BackToReviews, DeckPageNext, Loads, Works

\* The dashboard in the tab: it comes and goes between the other pages, and what
\* it shows is what the dashboard alone would show.
THEOREM TabListsWork == TabSpec => [](ContinueIsHonest /\ StartedWorkIsListed)
<1>1. TabInit => DashboardInv
    BY DashboardInitKeeps DEF TabInit
<1>2. DashboardInv => ContinueIsHonest /\ StartedWorkIsListed
    BY InvContinues, InvLists
<1> QED BY <1>1, <1>2, TabStepsOnTheDashboard, DashboardNextKeeps, PTL DEF TabSpec

\* A reviewer who goes from page to page in one tab has all that the pages
\* promise on their own.
THEOREM TabIsSafe ==
    TabSpec =>
      /\ [](/\ OneCommentPerSubmit /\ AnswerIsTrue /\ CommentIsOnItsCard /\ ShownCommentsAreReal
            /\ NothingPassedUnreviewed
            /\ ContinueIsHonest /\ StartedWorkIsListed
            /\ EveryCardOnce /\ NoPromptLost
            /\ ClosedIsIdle /\ SpinnerHasLoad /\ OpenShowsInstalled
            /\ SyncedViewIsCurrent /\ MarkersAreOfLastSync)
      /\ LeftPageIsQuiet
<1>1. DeckPageSpec => [](/\ OneCommentPerSubmit /\ AnswerIsTrue /\ CommentIsOnItsCard
                         /\ ShownCommentsAreReal /\ NothingPassedUnreviewed)
    BY CommentedOnce, TrueAnswers, CommentsOnTheirCards, RealComments, NothingSkipped, PTL
<1>2. LocalizationSpec => [](EveryCardOnce /\ NoPromptLost)
    BY CardsOnce, PromptsKept, PTL
<1>3. PickerSpec => [](ClosedIsIdle /\ SpinnerHasLoad /\ OpenShowsInstalled)
    BY ClosedDialogIsIdle, OneLoadPerSpinner, FreshList, PTL
<1>4. PullsSpec => [](SyncedViewIsCurrent /\ MarkersAreOfLastSync)
    BY SyncConverges, MarkersFollowSyncs, PTL
<1> QED BY <1>1, <1>2, <1>3, <1>4, LeftListIsQuiet, TabRunsItsPages, TabListsWork, PTL
=============================================================================
