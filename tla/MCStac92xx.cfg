CONSTANTS
    Codecs <- McCodecs
    BiosPinctl <- McBiosPinctl
SPECIFICATION Spec
INVARIANTS
    TypeOK
    DacTableSound
    SharedJackFollowsSwitch
    QuiescentOutputsFollowHp
PROPERTIES
    HpPlugMutesOutputs
