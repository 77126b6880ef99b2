CONSTANTS
    r1 = r1
    r2 = r2
    Relays = {r1, r2}
    Nobody = Nobody
    Main = Main
    MaxLaunches = 2
SPECIFICATION Spec
SYMMETRY Symmetry
PROPERTIES AccessRestarts
CHECK_DEADLOCK FALSE
