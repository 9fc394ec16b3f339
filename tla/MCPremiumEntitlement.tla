------------------------ MODULE MCPremiumEntitlement ------------------------
(* Small instances of PremiumEntitlement for TLC. *)
EXTENDS PremiumEntitlement

CONSTANTS r1, premium_monthly, premium_lifetime, ai_weekly

OneRefresh == {r1}
SubsIds == {premium_monthly, ai_weekly}
InappIds == {premium_lifetime}
PremiumIds == {premium_monthly, premium_lifetime}
=============================================================================
