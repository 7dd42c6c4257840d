SPECIFICATION Spec
CONSTANTS
    Name = {"a", "b"}
    Buffer = {b1, b2, b3, b4}
    Byte = {0, 1}
PROPERTY
    ListIsACopy
