SPECIFICATION FairSpec
CONSTANTS
    Fragments <- SiteFragments
    Template <- SiteTemplate
    Stylesheets <- SiteStylesheets
    Inputs <- SiteInputs
    Simple = TRUE
    NoFragment = "NoFragment"
    NoHref = "NoHref"
    Rank <- SiteRank
INVARIANTS
    DepthIsBounded
    StylesCoverContent
    HtmlIsRendering
    IInv
PROPERTY
    GetHtmlReturns
