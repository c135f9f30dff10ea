------------------------------ MODULE FormPages ------------------------------
(***************************************************************************)
(* The pages that save something and leave: the forms of leases, payments, *)
(* tenants, properties and units, the archive button of a property, and    *)
(* the two pages that sign in.  (The page that records a new payment keeps *)
(* its attempts in localStorage: PaymentRecovery.)                         *)
(***************************************************************************)
EXTENDS Tab

formUnchanged == UNCHANGED <<db, expired, issued, strays, visits>>

\* The form is rendered: at once, or when the record it edits is there.
FormShown ==
  /\ view.page \in SavingPages
  /\ Loads(view.page) => ~view.loading /\ view.rows # None

\* handleSubmit up to the await of the request; the button is not disabled.
HandleSubmit ==
  /\ UserMayAct /\ FormShown /\ ~view.submitting
  /\ view' = [view EXCEPT !.submitting = TRUE]
  /\ calls' = Append(calls, Sending(view.page, None, "active",
                                    IF view.page \in AuthPages THEN 0 ELSE token))
  /\ formUnchanged /\ UNCHANGED <<gets, token, going, unloading>>

-----------------------------------------------------------------------------
(* The lease form.  A unit is told apart by the property it belongs to.     *)

\* Selecting a property leaves the unit, and its effect reads the units of the
\* property, if there is one.
ChooseProperty(home) ==
  /\ UserMayAct /\ view.choices
  /\ home # view.property
  /\ LET asking == Here({"units"}) # {}
     IN view' = [view EXCEPT !.property = home,
                             !.options = IF home = None THEN None ELSE @,
                             !.rushed = @ \/ asking]
  /\ IF home = None
       THEN UNCHANGED <<calls, gets>>
       ELSE /\ calls' = Append(calls, Reading("units", home, "active", UnitUrls(home)))
            /\ gets' = Fetch(UnitUrls(home))
  /\ formUnchanged /\ UNCHANGED <<token, going, unloading>>

ChooseUnit ==
  /\ view.options # None
  /\ view' = [view EXCEPT !.unit = view.options]
  /\ formUnchanged /\ UNCHANGED <<calls, gets, token, going, unloading>>

\* Selects with a required value accept one of their options only.
LeaseForm ==
  /\ view.page \in LeaseForms /\ FormShown
  /\ \/ \E h \in Homes \cup {None} : ChooseProperty(h)
     \/ ChooseUnit
     \/ /\ view.choices /\ view.property # None
        /\ view.unit # None /\ view.unit = view.options
        /\ HandleSubmit

-----------------------------------------------------------------------------
(* The other forms: what is typed in is not told apart.                     *)

\* The lease of a payment must be among those offered.
PaymentForm == view.page = "editPayment" /\ view.choices /\ HandleSubmit

TenantForm == view.page \in {"newTenant", "editTenant"} /\ HandleSubmit

PropertyForm == view.page \in {"newProperty", "editProperty"} /\ HandleSubmit

UnitForm == view.page \in {"newUnit", "editUnit"} /\ HandleSubmit

\* The archive button below the early returns, and its confirmation.
ArchiveButton == view.page = "property" /\ HandleSubmit

LoginForm == view.page = "login" /\ HandleSubmit

RegisterForm == view.page = "register" /\ HandleSubmit

-----------------------------------------------------------------------------
(* After the request of a form.                                             *)

\* Mutant: every form enables its button again.
AfterSaveEnabled(page) == [view EXCEPT !.saved = TRUE, !.submitting = FALSE]

AfterSave(page) ==
  [view EXCEPT !.saved = TRUE, !.submitting = ~Page[page].early]

\* router.push to the list, whether the form is still shown or not; a sign-in
\* stores its token first.
Saved(i) ==
  LET c == calls[i]
  IN /\ c.op \in SavingPages /\ c.send # None /\ c.send.state = "ok"
     /\ token' = IF c.op \in AuthPages THEN c.send.token ELSE token
     /\ going' = Page[c.op].leaves
     /\ view' = IF c.here THEN AfterSave(c.op) ELSE view
     /\ calls' = RemoveAt(calls, i)
     /\ formUnchanged /\ UNCHANGED <<gets, unloading>>

\* catch: the button is enabled again if the form learns of the failure.
NotSaved(i) ==
  LET c == calls[i]
  IN /\ c.op \in SavingPages /\ c.send # None
     /\ \E answer \in Answers(c.send) \ {"ok"} : Settle(c.send, answer)
     /\ view' = IF c.here THEN [view EXCEPT !.submitting = Page[c.op].swallows] ELSE view
     /\ calls' = RemoveAt(calls, i)
     /\ formUnchanged /\ UNCHANGED <<gets, going>>
=============================================================================
