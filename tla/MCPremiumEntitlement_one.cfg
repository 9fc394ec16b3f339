CONSTANTS
    r1 = r1
    premium_monthly = premium_monthly
    premium_lifetime = premium_lifetime
    ai_weekly = ai_weekly
    Refreshers <- OneRefresh
    Subs <- SubsIds
    Inapp <- InappIds
    Premium <- PremiumIds
    RewardDays = 1
    LastDay = 3
SPECIFICATION Spec
INVARIANTS TypeOK PremiumJustified
PROPERTY NoFalseDrop SubscriptionRecognised
