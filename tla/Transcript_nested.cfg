SPECIFICATION TranscriptSpec
CONSTANTS
    Indents = {0, 1, 2}
    Delims = {c}
    None = none
    MaxLines = 7
INVARIANTS NestingInv ReadsWhatIsMeant OnlyWhole
