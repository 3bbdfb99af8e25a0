CONSTANTS
    Macs = {{1}, {0, 2}}
    BoxMac = {1}
SPECIFICATION Spec
INVARIANT MacAsSet
