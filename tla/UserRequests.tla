---------------------------- MODULE UserRequests ----------------------------
(***************************************************************************)
(* Requests about one user's account: OAuth sign-in, the row's avatars and *)
(* deletion, failed PINs, the language, devices.  The five keep state in   *)
(* columns, tables and Redis keys of their own: no column or key that one  *)
(* writes is read by another (the language column is written through the   *)
(* user repository's update, like any other), so interleaving one with     *)
(* another adds nothing: a behaviour is about one of them, chosen at the   *)
(* start.                                                                  *)
(***************************************************************************)
EXTENDS OAuth, UserRow, PinAttempts, Localization, Devices

VARIABLE about
vars == <<about, oauthVars, rowVars, pinVars, langVars, deviceVars>>

Init ==
  /\ about \in {"oauth", "row", "pin", "language", "devices"}
  /\ OAuthInit /\ RowInit /\ PinInit /\ LangInit /\ DevicesInit

SigningIn ==
  /\ about = "oauth"
  /\ OAuthElapse \/ \E s \in SignIns : SignInStep(s)
  /\ UNCHANGED <<about, rowVars, pinVars, langVars, deviceVars>>

ChangingRow ==
  /\ about = "row"
  /\ DeletionStep \/ OverwriteStep \/ \E c \in Changes : ChangeStep(c)
  /\ UNCHANGED <<about, oauthVars, pinVars, langVars, deviceVars>>

CountingPins ==
  /\ about = "pin"
  /\ PinTimeout \/ \E c \in Pins : PinStep(c)
  /\ UNCHANGED <<about, oauthVars, rowVars, langVars, deviceVars>>

ChoosingLanguage ==
  /\ about = "language"
  /\ LangElapse \/ \E v \in Visits : VisitStep(v)
  /\ UNCHANGED <<about, oauthVars, rowVars, pinVars, deviceVars>>

UsingDevices ==
  /\ about = "devices"
  /\ DeviceStep
  /\ UNCHANGED <<about, oauthVars, rowVars, pinVars, langVars>>

Next == SigningIn \/ ChangingRow \/ CountingPins \/ ChoosingLanguage \/ UsingDevices

Spec == Init /\ [][Next]_vars
=============================================================================
