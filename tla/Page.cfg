\* One part of the page after the other, see MCPage.
SPECIFICATION MCSpec
CONSTANTS
    ComunesKey = {"CorrelationId"}
    CorrelationIdKey = "CorrelationId"
    AdditionalKey = {"h1", "h2"}
    HeaderValue = {"v1", "guid"}
    Guid = "guid"
    RecentSendsCap = 2
    None = None
    Exchange = {"x1"}
    RoutingKey = {"r1", "r2"}
    Payload = {"p1"}
    Target <- MCTarget
    TypedCorrelationId = {"c9"}
    TemplateName = {"t1", "t2"}
    Post = {o1, o2}
    MaxRows = 2
    MaxSends = 3
    MaxDrafts = 2
    Subscription = {s1, s2}
    MessageContent = {"k1", "k2", "k3"}
    Term = {"t1"}
    NoTerm = NoTerm
    Finds <- MCFinds
    Answers <- MCAnswers
    MaxArrivals = 3
    ReplyTarget <- MCReplyTarget
SYMMETRY Symmetry
INVARIANTS
    SPTypeOK
    FDTypeOK
    ReloadLosesNothing
    RecentSendsAreNewest
    TemplateNamesUnique
    RepliesMatchTheirRequest
    RecalledHeadersAreSaved
    HighlightIsFresh
    CountersCoverScreen
    NeverShownTwice
PROPERTIES
    FrozenWhilePaused
CHECK_DEADLOCK FALSE
