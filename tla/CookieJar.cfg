SPECIFICATION JarSpec
CONSTANTS
    IpLiterals <- MCIpLiterals
    PublicSuffixes <- MCPublicSuffixes
    Labels <- MCLabels
    Segments <- MCSegments
    Urls <- MCUrls
    Settings <- MCSettings
    Fractions = {1}
    MaxNow = 2
    MaxIssue = 2
    Absent = Absent
INVARIANTS
    NeverLeaks
    LegsAgree
    SentAsTheBrowserWould
CHECK_DEADLOCK FALSE
