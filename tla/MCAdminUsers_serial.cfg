\* Three concurrent handlers: enough for a promotion and a demotion to slip
\* between the read and the write of a third.
CONSTANTS
    Users = {u1, u2, u3}
    Root = u1
    Handlers = {h1, h2, h3}
    MaxOps = 3
SYMMETRY Symmetry
SPECIFICATION UsersSpec
INVARIANT SafeUnlessOverlapped
