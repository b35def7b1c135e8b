---------------------------- MODULE MCHatRuntime ----------------------------
(* HatRuntime on a small bus.  The servos are interchangeable, so the       *)
(* safety runs check one state of each orbit.                               *)
EXTENDS HatRuntime, TLC

ServoSymmetry == Permutations(Servos)

(* ARM_HAT_CONTROLLER_V1.md:88-92: an automatic fault retains obligations   *)
(* and blocks new authority until every tracked servo is proven off.  So    *)
(* authority taken from none leaves no other pending servo energised.       *)
NewAuthorityNeedsOffProof ==
  [][Authorised(Current) = {} /\ Authorised(Current)' # {}
       => energised' \cap pending' \subseteq Authorised(Current)']_vars

(* ARM_HAT_CONTROLLER_V1.md:97-99: an unhealthy supervision sample revokes  *)
(* authority immediately, so no counted bad sample coexists with authority. *)
BadSampleRevokes == badSamples > 0 => Authorised(Current) = {}

=============================================================================
