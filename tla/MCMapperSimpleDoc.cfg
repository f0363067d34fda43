CONSTANTS
    MapperKeys <- MCMapperKeys
    SrcHookTypes = {}
    DstHookTypes <- MCDstHookTypes
INIT Init
NEXT Next
INVARIANT IsSimpleTypeAsDocumented
