--------------------------- MODULE SettingsWindow ---------------------------
(***************************************************************************)
(* The windows that edit the settings, over the store they are kept in:    *)
(* the settings window and the first-run wizard                            *)
(* (internal/ui/settings_win.go) and the override boxes of the nodes       *)
(* window (internal/ui/nodes_win.go).                                      *)
(*                                                                         *)
(* The settings window's form is a copy, taken when the window is shown,   *)
(* and stays open while nodes are planned, overrides are changed and the   *)
(* wizard is answered; its Save button writes every field of the form      *)
(* back, the ones the user did not touch too.  The window also holds the   *)
(* button that asks for the latest release (ReleaseCheck).                 *)
(***************************************************************************)
EXTENDS Store, ReleaseCheck

CONSTANTS
    FormFields,   \* the fields of the form; the others are overrides
    NoForm        \* the settings window is not shown

Values == 0..MaxEdits

ASSUME WindowAssumption ==
    /\ FormFields \subseteq Fields
    /\ UrlField \in FormFields
    /\ NoForm \notin [FormFields -> Values]
    /\ Windows = Procs

VARIABLES
    form,      \* the form's content as the window loaded it
    wizard,    \* the wizard is open
    chosen     \* history: what each field was loaded with or last set to

formVars == <<form, wizard, chosen>>
windowVars == <<formVars, checkVars>>
allVars == <<vars, windowVars>>

NothingChosen == [f \in Fields |-> 0]

WindowInit ==
    /\ Init
    /\ form = [p \in Procs |-> NoForm]
    /\ wizard = [p \in Procs |-> FALSE]
    /\ chosen = [p \in Procs |-> NothingChosen]
    /\ CheckInit

-----------------------------------------------------------------------------
\* Start-up ends with the wizard when there is no URL.
LaunchShell(p) ==
    /\ Launch(p)
    /\ chosen' = [chosen EXCEPT ![p] = mem'[p].fields]
    /\ wizard' = [wizard EXCEPT ![p] = mem'[p].fields[UrlField] = 0]
    /\ UNCHANGED <<form, checkVars>>

CrashShell(p) ==
    /\ Crash(p)
    /\ form' = [form EXCEPT ![p] = NoForm]
    /\ wizard' = [wizard EXCEPT ![p] = FALSE]
    /\ chosen' = [chosen EXCEPT ![p] = NothingChosen]
    /\ NewLabel(p)

\* Show loads the form, anew when the window is shown already.
Show(p) ==
    /\ pc[p] = "idle"
    /\ form' = [form EXCEPT ![p] = [f \in FormFields |-> mem[p].fields[f]]]
    /\ NewLabel(p)
    /\ UNCHANGED <<vars, wizard, chosen>>

\* The window is hidden, and shown again only by Show: its form and label
\* are done with.
Hide(p) ==
    /\ form' = [form EXCEPT ![p] = NoForm]
    /\ NewLabel(p)

Cancel(p) ==
    /\ pc[p] = "idle"
    /\ form[p] # NoForm
    /\ Hide(p)
    /\ UNCHANGED <<vars, wizard, chosen>>

\* What the settings keep of the entries typed into: the entry, or the
\* default where it is empty (strOr) or cannot be read (atoiOr; the validator
\* trims an entry that has spaces around its number, atoiOr does not).  The
\* URL's validator lets no empty one pass.
Kept(p, typed) ==
    {kept \in [typed -> {0, mem[p].edit + 1}] : UrlField \in typed => kept[UrlField] # 0}

\* Mutant: apply builds new settings from the form.
AppliedAnew(p, kept) ==
    [f \in Fields |-> IF f \in DOMAIN kept THEN kept[f]
                      ELSE IF f \in FormFields THEN form[p][f] ELSE 0]

\* The settings after apply.
Applied(p, kept) ==
    [f \in Fields |-> IF f \in DOMAIN kept THEN kept[f]
                      ELSE IF f \in FormFields THEN form[p][f]
                      ELSE mem[p].fields[f]]

\* Fields in the settings that the user has just set.
Choose(p, kept) ==
    chosen' = [chosen EXCEPT ![p] =
                  [f \in Fields |-> IF f \in DOMAIN kept THEN kept[f] ELSE @[f]]]

\* apply, up to its call of Save.  The hardware id is any other, or the one
\* there was: an empty entry does not replace it.
Apply(p, typed) ==
    /\ form[p] # NoForm
    /\ \E kept \in Kept(p, typed), id \in Ids :
          /\ SetFields(p, Applied(p, kept), id)
          /\ Choose(p, kept)
    /\ Hide(p)
    /\ UNCHANGED wizard

\* A critical section that sets one field.
SetField(p, f) ==
    /\ SetFields(p, [mem[p].fields EXCEPT ![f] = mem[p].edit + 1], mem[p].hwid)
    /\ Choose(p, [g \in {f} |-> mem[p].edit + 1])

\* An override box of the nodes window.
Override(p, f) ==
    /\ f \in Fields \ FormFields
    /\ SetField(p, f)
    /\ UNCHANGED <<form, wizard, checkVars>>

\* The wizard's connect button sets the URL.
Connect(p) ==
    /\ wizard[p]
    /\ SetField(p, UrlField)
    /\ wizard' = [wizard EXCEPT ![p] = FALSE]
    /\ UNCHANGED <<form, checkVars>>

DismissWizard(p) ==
    /\ pc[p] = "idle"
    /\ wizard[p]
    /\ wizard' = [wizard EXCEPT ![p] = FALSE]
    /\ UNCHANGED <<vars, form, chosen, checkVars>>

\* The button and its answer, on the UI thread between two other handlers.
Check(p) ==
    /\ pc[p] = "idle"
    /\ form[p] # NoForm
    /\ PressCheck(p) \/ ShowVerdict(p)
    /\ UNCHANGED <<vars, formVars>>

\* What the windows have no part in.
StoreStep(p) ==
    /\ Acquire(p) \/ Refused(p) \/ LaunchFails(p) \/ Save(p)
          \/ Fetch(p) \/ EndRefresh(p) \/ \E t \in Tags : PlanNode(p, t)
    /\ UNCHANGED windowVars

WindowNext ==
    \E p \in Procs :
        \/ StoreStep(p) \/ LaunchShell(p) \/ CrashShell(p)
        \/ Show(p) \/ Cancel(p)
        \/ \E typed \in SUBSET FormFields : Apply(p, typed)
        \/ \E f \in Fields : Override(p, f)
        \/ Connect(p) \/ DismissWizard(p) \/ Check(p)

WindowSpec == WindowInit /\ [][WindowNext]_allVars

-----------------------------------------------------------------------------
(* Properties                                                              *)

\* A form that is applied late undoes nothing: every override, and every
\* field but the URL, is what the user last made it, however old the form.
\* (The URL may be undone, by a form shown before the wizard was answered.)
NothingUndone ==
    \A p \in Procs : Running(p) =>
        \A f \in Fields \ {UrlField} : mem[p].fields[f] = chosen[p][f]
=============================================================================
