SPECIFICATION Spec
CONSTANTS
    u1 = u1
    u2 = u2
    card = card
    jar = jar
    User = {u1, u2}
    Account = {card, jar}
    Owner <- MCOwner
    Active = {u1, u2}
    Token = {u1, u2}
    Everyone = "everyone"
    Stranger = "stranger"
    Cooldown = 2
    RateWait = 2
    Pace = 1
    MaxOps = 2
INVARIANT HttpErrorsAreRetried
