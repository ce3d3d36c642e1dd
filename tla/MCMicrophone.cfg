SPECIFICATION FairMicrophoneSpec
CONSTANTS
    Attempt = {a1, a2}
    Nothing = Nothing
INVARIANTS
    MicrophoneTypeOK
    NothingLeftBehind
    NoCandidateStranded
    CandidatesFollowTheirOffer
    NoCandidateLost
PROPERTIES
    LocalCandidatesArrive
    RemoteCandidatesArrive
CHECK_DEADLOCK FALSE
