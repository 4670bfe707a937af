SPECIFICATION FairSpec
CONSTANTS
    Own = own
    Foreign = foreign
    NoName = none
    Commands = 3
    Banners <- MCBanners
    Answers <- MCAnswers
    Limit = 4
INVARIANTS OutputsBelong PasswordOnlyWhenAsked OnlyPrivileged
PROPERTIES RunEnds
